---- MODULE Spec2Model ----
(***************************************************************************)
(* Credit ledger of the rewards platform: the file-backed HTTP API         *)
(* (FileStorage + routes) and the Mongoose models (User, Transaction,      *)
(* Task, Voucher).  Collections of the file store are JSON arrays and are  *)
(* modelled as sequences of records; a record is a function from field     *)
(* names to values, so the object spread {...old, ...update} is the        *)
(* function override  update @@ old.                                       *)
(***************************************************************************)
EXTENDS Integers, Sequences, FiniteSets, TLC

VARIABLES
    now,            \* the wall clock (new Date() / Date.now()), in ticks
    users,          \* users.json
    vouchers,       \* vouchers.json
    transactions,   \* transactions.json
    tasks,          \* tasks.json
    resp,           \* the response the last request handler sent
    accounts,       \* the User collection of the database (Mongoose)
    ledger,         \* the Transaction collection of the database, in insertion order
    saved,          \* how the last save() or credit call on the database ended
    taskDocs,       \* the Task collection of the database
    hashCalls,      \* the calls of Transaction.generateHash made so far
    req,            \* what the auth middleware made of the last request
    writable,       \* whether fs.writeFileSync succeeds on the data files
    procs,          \* the Transaction saves in flight, one per concurrent caller
    sent,           \* the res.json calls the middleware made on the last request
    photos,         \* photos.json
    videos          \* videos.json

fileVars == <<users, vouchers, transactions, tasks, resp>>
dbVars == <<accounts, ledger, saved, taskDocs, hashCalls>>
reqVars == <<req, sent>>
mediaVars == <<photos, videos>>
vars == <<now, users, vouchers, transactions, tasks, resp,
          accounts, ledger, saved, taskDocs, hashCalls, req, writable, procs, sent,
          photos, videos>>

(***************************************************************************)
(* Bounds of the model.                                                    *)
(***************************************************************************)
MaxTime == 2
MaxTx == 2
MaxQty == 3
MaxTasks == 2
MaxItems == 2
MaxAge == 1
MaxLimit == 2
MaxOffset == 2
MaxLedger == 1
MaxChain == 3
MaxConfirm == 2
MaxDraws == 2
MaxNonce == 1
MaxCalls == 2
MaxDocs == 1
MaxTarget == 2
MaxUsers == 3
MaxBalance == 120
MaxProcs == 2
MaxOwned == 2

\* The welcome grant a registered user starts with.
WelcomeGrant == 100
\* expiresIn of the tokens the server signs, in days.
TokenLife == 7

UserIds == {1, 2}
\* The ids of the User documents of the database.
AccountIds == {1}

(***************************************************************************)
(* FileStorage (utils/fileStorage)                                         *)
(***************************************************************************)

\* generateId(): 16 random bytes; a fresh id, here the next free number.
generateId(collection) == Len(collection) + 1

\* Array.prototype.findIndex on _id, 1-based; 0 when nothing matches (-1 in JS).
findIndexById(collection, id) ==
    IF \E i \in 1..Len(collection) : collection[i]._id = id
    THEN CHOOSE i \in 1..Len(collection) :
            /\ collection[i]._id = id
            /\ \A j \in 1..(i - 1) : collection[j]._id # id
    ELSE 0

\* writeData(collection, data): what the file holds afterwards.  A write that
\* throws is caught and logged inside writeData, and the file keeps what it had.
writeData(collection, data) == IF writable THEN data ELSE collection

\* { _id, ...data, createdAt, updatedAt }: the object a create call builds
\* and returns.
newRecord(collection, data) ==
    [createdAt |-> now, updatedAt |-> now] @@ data @@ [_id |-> generateId(collection)]

\* The object pushed on the collection, and the collection written.
createRecord(collection, data) ==
    writeData(collection, Append(collection, newRecord(collection, data)))

\* An update that reaches every record of the collection.
updateEveryRecord(collection, id, updateData) ==
    writeData(collection,
              [i \in 1..Len(collection) |->
                  [updatedAt |-> now] @@ updateData @@ collection[i]])

\* { ...old, ...updateData, updatedAt } written at the record's index; the
\* collection is left alone when no record has the id.
updateRecord(collection, id, updateData) ==
    LET i == findIndexById(collection, id) IN
    IF i # 0
    THEN writeData(collection,
                   [collection EXCEPT ![i] = [updatedAt |-> now] @@ updateData @@ @])
    ELSE collection

\* The object an update call returns: the merged record, written or not.
updatedRecord(collection, id, updateData) ==
    [updatedAt |-> now] @@ updateData @@ collection[findIndexById(collection, id)]

findUser(id) == findIndexById(users, id)

updateUser(userId, updateData) == updateRecord(users, userId, updateData)

createTransaction(transactionData) == createRecord(transactions, transactionData)

updateVoucher(voucherId, updateData) == updateRecord(vouchers, voucherId, updateData)

(***************************************************************************)
(* POST /api/rewards/redeem                                                *)
(***************************************************************************)

\* A window test no time fails.
windowAlwaysOpen(voucher, time) == FALSE

\* now < startDate || now > endDate
outsideWindow(voucher, time) ==
    time < voucher.validity.startDate \/ time > voucher.validity.endDate

\* The quantity the user's stored redemptions of the voucher add up to.
RECURSIVE redeemedBy(_, _, _)
redeemedBy(list, userId, voucherId) ==
    IF list = <<>>
    THEN 0
    ELSE (IF /\ Head(list).user = userId
             /\ Head(list).type = "voucher_redemption"
             /\ Head(list).metadata.voucherId = voucherId
          THEN Head(list).metadata.quantity
          ELSE 0) + redeemedBy(Tail(list), userId, voucherId)

\* A cap test that counts what the user redeemed before.
overPerUserInAll(voucher, userId, quantity) ==
    /\ voucher.usage.limit.perUser # 0
    /\ redeemedBy(transactions, userId, voucher._id) + quantity
          > voucher.usage.limit.perUser

\* perUser && quantity > perUser: the quantity of this request alone.
overPerUser(voucher, userId, quantity) ==
    /\ voucher.usage.limit.perUser # 0
    /\ quantity > voucher.usage.limit.perUser

\* A cost computed from the unit price alone, whatever the quantity.
totalCostOfOne(voucher, quantity) == voucher.cost.credits

\* voucher.cost.credits * quantity
totalCost(voucher, quantity) == voucher.cost.credits * quantity

\* A sufficiency check that lets every request through.
insufficientNever(user, cost) == FALSE

\* user.credits < totalCost
insufficientCredits(user, cost) == user.credits < cost

Response(route, status, message, data) ==
    [route |-> route, status |-> status, message |-> message, data |-> data]

NoData == [none |-> TRUE]

RedeemRoute == "POST /rewards/redeem"

RedeemReject(status, message) ==
    /\ resp' = Response(RedeemRoute, status, message, NoData)
    /\ UNCHANGED <<users, vouchers, transactions>>

Redeem(userId, voucherId, quantity) ==
    LET u == findUser(userId)
        v == findIndexById(vouchers, voucherId)
    IN
    /\ UNCHANGED <<now, tasks>>
    /\ IF quantity < 1
       THEN RedeemReject(400, "Validation failed")
       ELSE IF u = 0
       THEN RedeemReject(404, "User not found")
       ELSE IF v = 0
       THEN RedeemReject(404, "Voucher not found")
       ELSE IF ~vouchers[v].validity.isActive
       THEN RedeemReject(400, "Voucher is not active")
       ELSE IF outsideWindow(vouchers[v], now)
       THEN RedeemReject(400, "Voucher is expired or not yet active")
       ELSE IF overPerUser(vouchers[v], userId, quantity)
       THEN RedeemReject(400, "Maximum perUser vouchers per user allowed")
       ELSE IF insufficientCredits(users[u], totalCost(vouchers[v], quantity))
       THEN RedeemReject(400, "Insufficient credits")
       ELSE LET cost == totalCost(vouchers[v], quantity)
                newCredits == users[u].credits - cost
            IN
            /\ users' = updateUser(userId, [credits |-> newCredits])
            /\ transactions' = createTransaction(
                   [user |-> userId,
                    type |-> "voucher_redemption",
                    category |-> "spending",
                    amount |-> -cost,
                    metadata |-> [voucherId |-> vouchers[v]._id,
                                  quantity |-> quantity,
                                  unitCost |-> vouchers[v].cost.credits],
                    status |-> "completed"])
            /\ vouchers' = updateVoucher(voucherId,
                   ("usage.limit.used" :> (vouchers[v].usage.limit.used + quantity)))
            /\ resp' = Response(RedeemRoute, 200, "Voucher redeemed successfully",
                   [voucher |-> updatedRecord(vouchers, voucherId,
                        ("usage.limit.used" :> (vouchers[v].usage.limit.used + quantity))),
                    transaction |-> [amount |-> -cost, newBalance |-> newCredits]])

\* An optional request field is the empty set when the request leaves it out
\* and {value} when it carries one.
Given(field) == field # {}
ValueOf(field) == CHOOSE x \in field : TRUE

(***************************************************************************)
(* POST /api/auth/register                                                 *)
(***************************************************************************)

\* Strings the validators look into are sequences of characters.
LowerCase == {"a", "b", "c", "l", "n", "o", "t"}
UpperCase == {"A", "B", "C"}
Digits == {"1", "2"}

\* A username rule that lets every name through.
anyUsername(username) == TRUE

\* body('username'): 3 to 30 characters of [a-zA-Z0-9_]
validUsername(username) ==
    /\ Len(username) >= 3 /\ Len(username) <= 30
    /\ \A i \in 1..Len(username) :
          username[i] \in LowerCase \cup UpperCase \cup Digits \cup {"_"}

\* body('password'): at least 6 characters, one lower case letter, one upper
\* case letter and one digit among them.
validPassword(password) ==
    /\ Len(password) >= 6
    /\ \E i \in 1..Len(password) : password[i] \in LowerCase
    /\ \E i \in 1..Len(password) : password[i] \in UpperCase
    /\ \E i \in 1..Len(password) : password[i] \in Digits

\* An email address is its local part and its domain; isEmail() wants both.
isEmail(email) == email.local # "" /\ email.domain # ""

\* normalizeEmail(): the address in lower case.
toLowerCase(text) ==
    CASE text = "Ann" -> "ann"
      [] text = "Bob" -> "bob"
      [] text = "X.io" -> "x.io"
      [] OTHER -> text

normalizeEmail(email) ==
    [local |-> toLowerCase(email.local), domain |-> toLowerCase(email.domain)]

\* fileStorage.findUser({ email }) and findUser({ username }): whether a
\* record carries the value.
emailRegistered(email) == \E i \in 1..Len(users) : users[i].email = email
usernameTaken(username) == \E i \in 1..Len(users) : users[i].username = username

\* stats of a new user; co2Saved counts tenths.
NewStats ==
    [totalCleanups |-> 0, tasksCompleted |-> 0,
     environmentalImpact |-> [co2Saved |-> 0, wasteRecycled |-> 0, treesPlanted |-> 0]]

\* A grant of nothing.
noCredits(username) == 0

\* credits: WELCOME_CREDITS of the record createUser is given.
startingCredits(username) == WelcomeGrant

\* jwt.sign({ userId }, secret, { expiresIn }): a token of the server, naming
\* the user and the time it expires.
generateToken(userId) ==
    [userId |-> userId, signed |-> TRUE, exp |-> now + TokenLife]

RegisterRoute == "POST /auth/register"

Register(username, rawEmail, password, firstName) ==
    LET email == normalizeEmail(rawEmail) IN
    /\ UNCHANGED <<now, vouchers, transactions, tasks>>
    /\ IF ~validUsername(username) \/ ~isEmail(rawEmail) \/ ~validPassword(password)
       THEN /\ resp' = Response(RegisterRoute, 400, "Validation failed", NoData)
            /\ UNCHANGED users
       ELSE IF emailRegistered(email) \/ usernameTaken(username)
       THEN /\ resp' = Response(RegisterRoute, 400,
                                IF emailRegistered(email)
                                THEN "Email already registered"
                                ELSE "Username already taken", NoData)
            /\ UNCHANGED users
       ELSE LET userData == [username |-> username,
                             email |-> email,
                             password |-> <<"bcrypt", password>>,
                             profile |-> [firstName |-> IF Given(firstName)
                                                        THEN ValueOf(firstName)
                                                        ELSE ""],
                             credits |-> startingCredits(username),
                             stats |-> NewStats,
                             isActive |-> TRUE,
                             lastLogin |-> now]
                user == newRecord(users, userData)
            IN /\ users' = updateRecord(createRecord(users, userData), user._id,
                                        [lastLogin |-> now])
               /\ resp' = Response(RegisterRoute, 201, "User registered successfully",
                                   [user |-> [f \in (DOMAIN user) \ {"password"} |-> user[f]],
                                    token |-> generateToken(user._id)])

(***************************************************************************)
(* middleware/auth                                                         *)
(***************************************************************************)

\* An Authorization header is the sequence of the words of its value:
\* <<"Bearer", token>> is 'Bearer <token>'.  A header value reaches the
\* server without white space at its ends, so a value that starts with
\* 'Bearer ' has a token behind it.
startsWithBearer(header) == Len(header) >= 2 /\ header[1] = "Bearer"

\* authHeader.substring(7)
tokenOf(header) == header[2]

\* An expiry test no token fails.
neverExpired(token, time) == FALSE

\* The expiry test of jwt.verify.
expired(token, time) == time >= token.exp

\* jwt.verify(token, secret): the name of the error it throws, "none" when it
\* returns the payload.  The signature is checked before the expiry.
verify(token, time) ==
    IF ~token.signed THEN "JsonWebTokenError"
    ELSE IF expired(token, time) THEN "TokenExpiredError"
    ELSE "none"

AuthRoute == "auth"

\* A request the middleware has not passed on.
NoRequest == [userId |-> 0, user |-> NoData, next |-> FALSE]

\* The rejection of the middleware: the message of the 401 it answers the
\* header with, "" when it passes the request on.
authRejection(authHeader) ==
    IF ~Given(authHeader)
    THEN "No token provided, authorization denied"
    ELSE IF ~startsWithBearer(ValueOf(authHeader))
    THEN "Invalid token format. Use Bearer token"
    ELSE LET token == tokenOf(ValueOf(authHeader))
             u == findUser(token.userId)
         IN IF verify(token, now) = "JsonWebTokenError" THEN "Invalid token"
            ELSE IF verify(token, now) = "TokenExpiredError" THEN "Token expired"
            ELSE IF u = 0 THEN "User not found"
            ELSE IF ~users[u].isActive THEN "Account is deactivated"
            ELSE ""

AuthReject(message) ==
    /\ resp' = Response(AuthRoute, 401, message, NoData)
    /\ sent' = <<Response(AuthRoute, 401, message, NoData)>>
    /\ req' = NoRequest

\* auth(req, res, next); a response of status 0 is no response.
Auth(authHeader) ==
    /\ UNCHANGED <<now, users, vouchers, transactions, tasks>>
    /\ IF authRejection(authHeader) # ""
       THEN AuthReject(authRejection(authHeader))
       ELSE LET token == tokenOf(ValueOf(authHeader)) IN
            /\ req' = [userId |-> token.userId,
                       user |-> users[findUser(token.userId)], next |-> TRUE]
            /\ resp' = Response(AuthRoute, 0, "", NoData)
            /\ sent' = <<>>

AdminRoute == "adminAuth"

\* !req.user.isAdmin of a user record; registration writes no isAdmin field.
isAdmin(user) == "isAdmin" \in DOMAIN user /\ user.isAdmin

\* adminAuth(req, res, next): auth with a next that does nothing, then the
\* isAdmin test on req.user.  After a rejection of auth req.user is
\* undefined, reading isAdmin of it throws, and the catch block calls
\* res.status(500).json on the response auth has already answered.
AdminAuth(authHeader) ==
    /\ UNCHANGED <<now, users, vouchers, transactions, tasks>>
    /\ IF authRejection(authHeader) # ""
       THEN /\ resp' = Response(AuthRoute, 401, authRejection(authHeader), NoData)
            /\ sent' = <<Response(AuthRoute, 401, authRejection(authHeader), NoData),
                         Response(AdminRoute, 500,
                                  "Server error during admin authentication", NoData)>>
            /\ req' = NoRequest
       ELSE LET token == tokenOf(ValueOf(authHeader))
                user == users[findUser(token.userId)]
            IN IF ~isAdmin(user)
               THEN /\ resp' = Response(AdminRoute, 403, "Admin access required", NoData)
                    /\ sent' = <<Response(AdminRoute, 403, "Admin access required",
                                          NoData)>>
                    /\ req' = [userId |-> token.userId, user |-> user, next |-> FALSE]
               ELSE /\ resp' = Response(AuthRoute, 0, "", NoData)
                    /\ sent' = <<>>
                    /\ req' = [userId |-> token.userId, user |-> user, next |-> TRUE]

\* A user record given isAdmin: true in the users file; no route of the
\* server does it.
GrantAdmin(userId) ==
    /\ findUser(userId) # 0
    /\ ~isAdmin(users[findUser(userId)])
    /\ users' = updateUser(userId, [isAdmin |-> TRUE])
    /\ UNCHANGED <<now, vouchers, transactions, tasks, resp, reqVars>>

\* A user record whose isActive was set to false in the users file; no route
\* of the server does it.
Deactivate(userId) ==
    /\ findUser(userId) # 0
    /\ users[findUser(userId)].isActive
    /\ users' = updateUser(userId, [isActive |-> FALSE])
    /\ UNCHANGED <<now, vouchers, transactions, tasks, resp, reqVars>>

(***************************************************************************)
(* /api/tasks                                                              *)
(***************************************************************************)

\* An update object's key for a field the request carries.
Field(name, field) == IF Given(field) THEN name :> ValueOf(field) ELSE <<>>

createTask(taskData) == createRecord(tasks, taskData)

updateTask(taskId, updateData) == updateRecord(tasks, taskId, updateData)

\* findTasks({ user: userId }).find(t => t._id === id): the index of the
\* caller's task with the id, 0 when the caller owns no such task.
findOwnTask(userId, id) ==
    LET i == findIndexById(tasks, id) IN
    IF i # 0 /\ tasks[i].user = userId THEN i ELSE 0

TaskTypes == {"daily", "weekly", "monthly", "special"}
TaskStatuses == {"pending", "in_progress", "completed", "cancelled"}

PostTask(userId, type, credits) ==
    /\ UNCHANGED <<now, users, vouchers, transactions>>
    /\ IF type \notin TaskTypes \/ credits < 0
       THEN /\ resp' = Response("POST /tasks", 400, "Validation failed", NoData)
            /\ UNCHANGED tasks
       ELSE LET taskData == [user |-> userId, type |-> type, credits |-> credits,
                             difficulty |-> "medium", status |-> "pending",
                             progress |-> 0]
            IN /\ tasks' = createTask(taskData)
               /\ resp' = Response("POST /tasks", 201, "Task created successfully",
                                   [task |-> newRecord(tasks, taskData)])

\* The reward of a completion: the balance, the ledger entry and the stats,
\* each written from the user record read once before the first write.
awardCredits(userId, task) ==
    LET u == findUser(userId) IN
    IF u = 0
    THEN UNCHANGED <<users, transactions>>
    ELSE /\ users' = updateRecord(
                 updateRecord(users, userId,
                              [credits |-> users[u].credits + task.credits]),
                 userId,
                 [stats |-> [tasksCompleted |-> users[u].stats.tasksCompleted + 1]
                                @@ users[u].stats])
         /\ transactions' = createTransaction(
                 [user |-> userId,
                  type |-> "task_completion",
                  category |-> "earning",
                  amount |-> task.credits,
                  metadata |-> [taskId |-> task._id, taskType |-> task.type],
                  status |-> "completed"])

\* Whether this update earns the reward.
completesTask(status, task) ==
    Given(status) /\ ValueOf(status) = "completed" /\ task.status # "completed"

PutTask(userId, id, status, progress) ==
    LET t == findOwnTask(userId, id) IN
    /\ UNCHANGED <<now, vouchers>>
    /\ IF \/ Given(status) /\ ValueOf(status) \notin TaskStatuses
          \/ Given(progress) /\ ValueOf(progress) \notin 0..100
       THEN /\ resp' = Response("PUT /tasks/:id", 400, "Validation failed", NoData)
            /\ UNCHANGED <<users, transactions, tasks>>
       ELSE IF t = 0
       THEN /\ resp' = Response("PUT /tasks/:id", 404, "Task not found", NoData)
            /\ UNCHANGED <<users, transactions, tasks>>
       ELSE /\ tasks' = updateTask(id, Field("status", status)
                                          @@ Field("progress", progress))
            /\ IF completesTask(status, tasks[t])
               THEN awardCredits(userId, tasks[t])
               ELSE UNCHANGED <<users, transactions>>
            /\ resp' = Response("PUT /tasks/:id", 200, "Task updated successfully",
                                [task |-> updatedRecord(tasks, id,
                                              Field("status", status)
                                                  @@ Field("progress", progress))])

DeleteTask(userId, id) ==
    LET t == findOwnTask(userId, id) IN
    /\ UNCHANGED <<now, users, vouchers, transactions>>
    /\ IF t = 0
       THEN /\ resp' = Response("DELETE /tasks/:id", 404, "Task not found", NoData)
            /\ UNCHANGED tasks
       ELSE /\ tasks' = updateTask(id, [status |-> "cancelled"])
            /\ resp' = Response("DELETE /tasks/:id", 200, "Task deleted successfully",
                                NoData)

(***************************************************************************)
(* /api/transactions                                                       *)
(***************************************************************************)

TypeFilters == {"earning", "spending", "transfer", "bonus", "penalty"}
CategoryFilters == {"earning", "spending"}
StatusFilters == {"pending", "completed", "failed", "cancelled"}

\* The page size of a request that names no limit.
DefaultLimit == 20
\* The largest limit the validator accepts.
LimitCeiling == 100

PostTransaction(userId, type, category, amount) ==
    /\ UNCHANGED <<now, users, vouchers, tasks>>
    /\ IF type \notin TypeFilters \/ category \notin CategoryFilters
       THEN /\ resp' = Response("POST /transactions", 400, "Validation failed", NoData)
            /\ UNCHANGED transactions
       ELSE LET transactionData ==
                    [user |-> userId, type |-> type, category |-> category,
                     amount |-> amount, metadata |-> <<>>, status |-> "completed"]
            IN /\ transactions' = createTransaction(transactionData)
               /\ resp' = Response("POST /transactions", 201,
                                   "Transaction created successfully",
                                   [transaction |-> newRecord(transactions,
                                                              transactionData)])

\* FileStorage.findTransactions: the records that pass the user, type and
\* status tests of the query, in file order; no other key of the query is read.
findTransactions(query) ==
    LET keep(t) ==
            /\ ("user" \in DOMAIN query => t.user = query.user)
            /\ ("type" \in DOMAIN query => t.type = query.type)
            /\ ("status" \in DOMAIN query => t.status = query.status)
    IN SelectSeq(transactions, keep)

\* The date-range filter of the route.
inDateRange(list, startDate, endDate) ==
    LET keep(t) ==
            /\ ~(Given(startDate) /\ t.createdAt < ValueOf(startDate))
            /\ ~(Given(endDate) /\ t.createdAt > ValueOf(endDate))
    IN IF Given(startDate) \/ Given(endDate) THEN SelectSeq(list, keep) ELSE list

\* One step of a stable sort under (a, b) => b.createdAt - a.createdAt: x
\* goes behind every record that is not older than it.
RECURSIVE insertNewestFirst(_, _)
insertNewestFirst(sorted, x) ==
    IF sorted = <<>>
    THEN <<x>>
    ELSE IF Head(sorted).createdAt >= x.createdAt
    THEN <<Head(sorted)>> \o insertNewestFirst(Tail(sorted), x)
    ELSE <<x>> \o sorted

\* transactions.sort((a, b) => new Date(b.createdAt) - new Date(a.createdAt))
RECURSIVE sortNewestFirst(_)
sortNewestFirst(list) ==
    IF list = <<>>
    THEN <<>>
    ELSE insertNewestFirst(sortNewestFirst(SubSeq(list, 1, Len(list) - 1)),
                           list[Len(list)])

\* A page that always starts at the first item.
sliceFromStart(list, startIndex, endIndex) ==
    SubSeq(list, 1, IF endIndex - startIndex < Len(list)
                    THEN endIndex - startIndex ELSE Len(list))

\* Array.prototype.slice(startIndex, endIndex), both indexes >= 0.
slice(list, startIndex, endIndex) ==
    SubSeq(list, startIndex + 1, IF endIndex < Len(list) THEN endIndex ELSE Len(list))

\* endIndex = startIndex + parseInt(limit)
endIndexOf(offset, limit) == offset + limit

GetRoute == "GET /transactions"

\* The list the route pages: the query's records, date-filtered, newest first.
resultSet(userId, type, category, status, startDate, endDate) ==
    sortNewestFirst(
        inDateRange(
            findTransactions(("user" :> userId) @@ Field("type", type)
                                 @@ Field("category", category)
                                 @@ Field("status", status)),
            startDate, endDate))

GetTransactions(userId, type, category, status, limit, offset, startDate, endDate) ==
    /\ UNCHANGED <<now, users, vouchers, tasks, transactions>>
    /\ IF \/ Given(type) /\ ValueOf(type) \notin TypeFilters
          \/ Given(category) /\ ValueOf(category) \notin CategoryFilters
          \/ Given(status) /\ ValueOf(status) \notin StatusFilters
          \/ Given(limit) /\ ValueOf(limit) \notin 1..LimitCeiling
          \/ Given(offset) /\ ValueOf(offset) < 0
       THEN resp' = Response(GetRoute, 400, "Validation failed", NoData)
       ELSE LET all == resultSet(userId, type, category, status, startDate, endDate)
                lim == IF Given(limit) THEN ValueOf(limit) ELSE DefaultLimit
                startIndex == IF Given(offset) THEN ValueOf(offset) ELSE 0
                endIndex == endIndexOf(startIndex, lim)
            IN resp' = Response(GetRoute, 200, "Transactions retrieved successfully",
                   [transactions |-> slice(all, startIndex, endIndex),
                    pagination |-> [total |-> Len(all), limit |-> lim,
                                    offset |-> startIndex,
                                    hasMore |-> endIndex < Len(all)]])

(***************************************************************************)
(* GET /api/tasks                                                          *)
(***************************************************************************)

\* FileStorage.findTasks: the tasks that pass the user, status and type tests
\* of the query, in file order.
findTasks(query) ==
    LET keep(t) ==
            /\ ("user" \in DOMAIN query => t.user = query.user)
            /\ ("status" \in DOMAIN query => t.status = query.status)
            /\ ("type" \in DOMAIN query => t.type = query.type)
    IN SelectSeq(tasks, keep)

GetTasks(userId, status, type, limit, offset) ==
    /\ UNCHANGED <<now, users, vouchers, tasks, transactions, mediaVars>>
    /\ IF \/ Given(status) /\ ValueOf(status) \notin TaskStatuses
          \/ Given(type) /\ ValueOf(type) \notin TaskTypes
          \/ Given(limit) /\ ValueOf(limit) \notin 1..LimitCeiling
          \/ Given(offset) /\ ValueOf(offset) < 0
       THEN resp' = Response("GET /tasks", 400, "Validation failed", NoData)
       ELSE LET all == sortNewestFirst(
                           findTasks(("user" :> userId) @@ Field("status", status)
                                         @@ Field("type", type)))
                lim == IF Given(limit) THEN ValueOf(limit) ELSE DefaultLimit
                startIndex == IF Given(offset) THEN ValueOf(offset) ELSE 0
                endIndex == endIndexOf(startIndex, lim)
            IN resp' = Response("GET /tasks", 200, "Tasks retrieved successfully",
                   [tasks |-> slice(all, startIndex, endIndex),
                    pagination |-> [total |-> Len(all), limit |-> lim,
                                    offset |-> startIndex,
                                    hasMore |-> endIndex < Len(all)]])

(***************************************************************************)
(* /api/photos                                                             *)
(***************************************************************************)

createPhoto(photoData) == createRecord(photos, photoData)

updatePhoto(photoId, updateData) == updateRecord(photos, photoId, updateData)

\* A lookup that finds the photo of any user.
findAnyPhoto(userId, id) == findIndexById(photos, id)

\* findPhotos({ user: userId }).find(p => p._id === id): the index of the
\* caller's photo with the id, 0 when the caller owns no such photo.
findOwnPhoto(userId, id) ==
    LET i == findIndexById(photos, id) IN
    IF i # 0 /\ photos[i].user = userId THEN i ELSE 0

PhotoCategories ==
    {"beach_cleanup", "street_cleanup", "park_cleanup", "river_cleanup", "other"}

\* creditsAwarded
PhotoCredits == 10

\* POST /api/photos/upload with a file: the photo record, then the balance,
\* the ledger entry and the stats, each written from the user record read
\* once before the first write.
UploadPhoto(userId, category) ==
    LET photoData == [user |-> userId,
                      category |-> IF Given(category) THEN ValueOf(category)
                                   ELSE "other",
                      status |-> "pending"]
        photo == newRecord(photos, photoData)
        u == findUser(userId)
    IN
    /\ UNCHANGED <<now, vouchers, tasks, videos>>
    /\ IF Given(category) /\ ValueOf(category) \notin PhotoCategories
       THEN /\ resp' = Response("POST /photos/upload", 400, "Validation failed", NoData)
            /\ UNCHANGED <<users, transactions, photos>>
       ELSE /\ photos' = createPhoto(photoData)
            /\ IF u = 0
               THEN UNCHANGED <<users, transactions>>
               ELSE /\ users' = updateRecord(
                            updateRecord(users, userId,
                                         [credits |-> users[u].credits + PhotoCredits]),
                            userId,
                            [stats |-> [totalCleanups |->
                                            users[u].stats.totalCleanups + 1]
                                           @@ users[u].stats])
                    /\ transactions' = createTransaction(
                            [user |-> userId,
                             type |-> "photo_upload",
                             category |-> "earning",
                             amount |-> PhotoCredits,
                             metadata |-> [photoId |-> photo._id,
                                           category |-> photoData.category],
                             status |-> "completed"])
            /\ resp' = Response("POST /photos/upload", 201,
                                "Photo uploaded successfully",
                                [photo |-> photo,
                                 creditsAwarded |-> PhotoCredits,
                                 newBalance |-> IF u # 0
                                                THEN users[u].credits + PhotoCredits
                                                ELSE 0])

GetPhoto(userId, id) ==
    LET i == findOwnPhoto(userId, id) IN
    /\ UNCHANGED <<now, users, vouchers, tasks, transactions, mediaVars>>
    /\ IF i = 0
       THEN resp' = Response("GET /photos/:id", 404, "Photo not found", NoData)
       ELSE resp' = Response("GET /photos/:id", 200, "Photo retrieved successfully",
                             [photo |-> photos[i]])

DeletePhoto(userId, id) ==
    LET i == findOwnPhoto(userId, id) IN
    /\ UNCHANGED <<now, users, vouchers, tasks, transactions, videos>>
    /\ IF i = 0
       THEN /\ resp' = Response("DELETE /photos/:id", 404, "Photo not found", NoData)
            /\ UNCHANGED photos
       ELSE /\ photos' = updatePhoto(id, [status |-> "deleted"])
            /\ resp' = Response("DELETE /photos/:id", 200, "Photo deleted successfully",
                                NoData)

(***************************************************************************)
(* /api/videos                                                             *)
(***************************************************************************)

\* creditRewards; an action type outside the table has no reward.
ActionTypes == {"selfie-clean", "recycle", "plant", "cleanup", "energy"}

creditRewards(actionType) ==
    CASE actionType = "selfie-clean" -> 10
      [] actionType = "recycle" -> 50
      [] actionType = "plant" -> 100
      [] actionType = "cleanup" -> 75
      [] actionType = "energy" -> 30

\* The stats of the user after an upload of the action type.
statsAfter(stats, actionType) ==
    LET counted ==
            CASE actionType = "selfie-clean" ->
                     [stats EXCEPT !.totalCleanups = @ + 1]
              [] actionType = "recycle" ->
                     [stats EXCEPT !.environmentalImpact.wasteRecycled = @ + 1]
              [] actionType = "plant" ->
                     [stats EXCEPT !.environmentalImpact.treesPlanted = @ + 1]
              [] actionType = "cleanup" ->
                     [stats EXCEPT !.environmentalImpact.co2Saved = @ + 5]
              [] actionType = "energy" ->
                     [stats EXCEPT !.environmentalImpact.co2Saved = @ + 2]
    IN [counted EXCEPT !.tasksCompleted = @ + 1]

\* POST /api/videos/upload with a file: the video record pushed on the file,
\* then the user record written back with the reward and the stats.
UploadVideo(userId, actionType) ==
    LET videoData == [_id |-> generateId(videos), userId |-> userId,
                      actionType |-> actionType,
                      creditsEarned |-> creditRewards(actionType),
                      status |-> "pending", submittedAt |-> now]
        u == findUser(userId)
    IN
    /\ UNCHANGED <<now, vouchers, tasks, transactions, photos>>
    /\ IF actionType \notin ActionTypes
       THEN /\ resp' = Response("POST /videos/upload", 400, "Invalid action type", NoData)
            /\ UNCHANGED <<users, videos>>
       ELSE /\ videos' = writeData(videos, Append(videos, videoData))
            /\ IF u = 0
               THEN /\ UNCHANGED users
                    /\ resp' = Response("POST /videos/upload", 500,
                                        "Server error during video upload", NoData)
               ELSE LET user == [users[u] EXCEPT
                                    !.credits = @ + creditRewards(actionType),
                                    !.stats = statsAfter(@, actionType),
                                    !.updatedAt = now]
                    IN /\ users' = updateUser(userId, user)
                       /\ resp' = Response("POST /videos/upload", 201,
                                           "Video uploaded successfully",
                                           [video |-> [id |-> videoData._id,
                                                       actionType |-> actionType,
                                                       creditsEarned |->
                                                           videoData.creditsEarned,
                                                       submittedAt |-> now],
                                            user |-> [credits |-> user.credits,
                                                      stats |-> user.stats]])

\* video.userId !== req.userId && !req.user.isAdmin, negated
ownsOrAdmin(video, userId, user) == video.userId = userId \/ isAdmin(user)

\* GET /api/videos/:id of a caller the auth middleware has let through.
GetVideo(userId, id) ==
    LET i == findIndexById(videos, id) IN
    /\ findUser(userId) # 0
    /\ UNCHANGED <<now, users, vouchers, tasks, transactions, mediaVars>>
    /\ IF i = 0
       THEN resp' = Response("GET /videos/:id", 404, "Video not found", NoData)
       ELSE IF ~ownsOrAdmin(videos[i], userId, users[findUser(userId)])
       THEN resp' = Response("GET /videos/:id", 403, "Access denied", NoData)
       ELSE resp' = Response("GET /videos/:id", 200, "",
                             [video |-> [id |-> videos[i]._id,
                                         actionType |-> videos[i].actionType,
                                         creditsEarned |-> videos[i].creditsEarned,
                                         status |-> videos[i].status,
                                         submittedAt |-> videos[i].submittedAt]])

(***************************************************************************)
(* models/User: the credit balance                                         *)
(***************************************************************************)

\* A credit that adds nothing.
addNothing(account, amount) == account

\* userSchema.methods.addCredits: this.credits += amount
addCredits(account, amount) == [account EXCEPT !.credits = @ + amount]

\* A check that every cost passes.
canAffordAnything(account, cost) == TRUE

\* userSchema.methods.canAfford
canAfford(account, cost) == account.credits >= cost

\* A debit that takes nothing.
deductNothing(account, amount) == account

\* The subtraction of deductCredits, made once canAfford has passed.
deductCredits(account, amount) == [account EXCEPT !.credits = @ - amount]

\* this.save() of a User: the document replaces the stored one unless the
\* schema's validator of credits (min 0) refuses it.
saveAccount(id, account) ==
    IF account.credits < 0
    THEN saved' = "ValidationError" /\ UNCHANGED accounts
    ELSE accounts' = [accounts EXCEPT ![id] = account] /\ saved' = "ok"

\* user.addCredits(amount) called on the stored document of the user.
AddCredits(id, amount) ==
    /\ saveAccount(id, addCredits(accounts[id], amount))
    /\ UNCHANGED <<now, reqVars, writable, mediaVars, procs, fileVars, ledger, taskDocs, hashCalls>>

\* user.deductCredits(amount): throws before anything is changed when the
\* user cannot afford the amount.
DeductCredits(id, amount) ==
    /\ IF ~canAfford(accounts[id], amount)
       THEN saved' = "Insufficient credits" /\ UNCHANGED accounts
       ELSE saveAccount(id, deductCredits(accounts[id], amount))
    /\ UNCHANGED <<now, reqVars, writable, mediaVars, procs, fileVars, ledger, taskDocs, hashCalls>>

(***************************************************************************)
(* models/Transaction                                                      *)
(***************************************************************************)

Abs(n) == IF n < 0 THEN -n ELSE n

\* x || fallback: the field when it is given and not 0, else the fallback.
OrElse(field, fallback) ==
    IF Given(field) /\ ValueOf(field) # 0 THEN ValueOf(field) ELSE fallback

\* transactionSchema.statics.generateHash.  clock is what Date.now() returns
\* and random what Math.random() returns, were they called.  The SHA-256
\* digest of the JSON string is written as the tuple the string serialises:
\* equal strings give equal digests, different strings different ones.
generateHash(data, clock, random) ==
    <<data.user, data.type, data.amount,
      OrElse(data.timestamp, clock), OrElse(data.nonce, random)>>

\* A block number that is 1 whatever is stored.
alwaysFirstBlock(docs) == 1

\* The largest block number stored, with nothing added.
largestBlockNumber(docs) ==
    IF docs = <<>>
    THEN 1
    ELSE LET last == CHOOSE i \in 1..Len(docs) :
                        \A j \in 1..Len(docs) : docs[j].blockNumber <= docs[i].blockNumber
         IN docs[last].blockNumber

\* transactionSchema.statics.getNextBlockNumber: the largest block number
\* stored plus one, 1 for an empty collection.
getNextBlockNumber(docs) ==
    IF docs = <<>>
    THEN 1
    ELSE LET last == CHOOSE i \in 1..Len(docs) :
                        \A j \in 1..Len(docs) : docs[j].blockNumber <= docs[i].blockNumber
         IN docs[last].blockNumber + 1

\* hash: unique.  Whether the index of the collection holds the hash; the
\* insert of a second document with it fails.
hashStored(docs, hash) == \E i \in 1..Len(docs) : docs[i].hash = hash

\* transactionSchema.pre('save') of a new document: the hash and the block
\* number when the document carries none, and the fee total.
preSave(doc, random) ==
    LET hashed == IF doc.hash = <<>>
                  THEN [doc EXCEPT !.hash = generateHash(
                            [user |-> doc.user, type |-> doc.type,
                             amount |-> doc.amount, timestamp |-> {doc.createdAt},
                             nonce |-> {}], now, random)]
                  ELSE doc
        numbered == IF hashed.blockNumber = 0
                    THEN [hashed EXCEPT !.blockNumber = getNextBlockNumber(ledger)]
                    ELSE hashed
    IN [numbered EXCEPT !.fees.total = numbered.fees.network + numbered.fees.processing]

\* A post-save hook that debits what the balance holds when the amount
\* exceeds it, and reports no failure.
postSaveTakingTheRest(doc) ==
    IF doc.status = "confirmed" /\ doc.user \in DOMAIN accounts
    THEN IF doc.category = "earning"
         THEN saveAccount(doc.user, addCredits(accounts[doc.user], doc.amount))
         ELSE IF doc.category = "spending"
         THEN saveAccount(doc.user,
                  deductCredits(accounts[doc.user],
                                IF canAfford(accounts[doc.user], Abs(doc.amount))
                                THEN Abs(doc.amount)
                                ELSE accounts[doc.user].credits))
         ELSE saved' = "ok" /\ UNCHANGED accounts
    ELSE saved' = "ok" /\ UNCHANGED accounts

\* transactionSchema.post('save'): the balance effect of a confirmed document.
postSave(doc) ==
    IF doc.status = "confirmed" /\ doc.user \in DOMAIN accounts
    THEN IF doc.category = "earning"
         THEN saveAccount(doc.user, addCredits(accounts[doc.user], doc.amount))
         ELSE IF doc.category = "spending"
         THEN IF canAfford(accounts[doc.user], Abs(doc.amount))
              THEN saveAccount(doc.user,
                               deductCredits(accounts[doc.user], Abs(doc.amount)))
              ELSE saved' = "Insufficient credits" /\ UNCHANGED accounts
         ELSE saved' = "ok" /\ UNCHANGED accounts
    ELSE saved' = "ok" /\ UNCHANGED accounts

\* new Transaction({...}).save(); blockNumber 0 is a document without one.
NewTransaction(user, type, category, amount, status, blockNumber, random) ==
    LET doc == preSave(
                   [_id |-> Len(ledger) + 1, user |-> user, type |-> type,
                    category |-> category, amount |-> amount, status |-> status,
                    hash |-> <<>>, blockNumber |-> blockNumber,
                    fees |-> [network |-> 0, processing |-> 0, total |-> 0],
                    confirmationCount |-> 1, verified |-> FALSE,
                    createdAt |-> now], random)
    IN
    /\ IF hashStored(ledger, doc.hash)
       THEN saved' = "duplicate key" /\ UNCHANGED <<ledger, accounts>>
       ELSE ledger' = Append(ledger, doc) /\ postSave(doc)
    /\ UNCHANGED <<now, reqVars, writable, mediaVars, procs, fileVars, taskDocs, hashCalls>>

\* transactionSchema.methods.confirm
Confirm(i) ==
    LET doc == [ledger[i] EXCEPT !.status = "confirmed",
                                 !.confirmationCount = @ + 1]
    IN
    /\ ledger' = [ledger EXCEPT ![i] = doc]
    /\ postSave(doc)
    /\ UNCHANGED <<now, reqVars, writable, mediaVars, procs, fileVars, taskDocs, hashCalls>>

\* transactionSchema.methods.fail
Fail(i) ==
    LET doc == [ledger[i] EXCEPT !.status = "failed", !.verified = FALSE]
    IN
    /\ ledger' = [ledger EXCEPT ![i] = doc]
    /\ postSave(doc)
    /\ UNCHANGED <<now, reqVars, writable, mediaVars, procs, fileVars, taskDocs, hashCalls>>

\* transactionSchema.methods.cancel
Cancel(i) ==
    LET doc == [ledger[i] EXCEPT !.status = "cancelled"]
    IN
    /\ ledger' = [ledger EXCEPT ![i] = doc]
    /\ postSave(doc)
    /\ UNCHANGED <<now, reqVars, writable, mediaVars, procs, fileVars, taskDocs, hashCalls>>

(***************************************************************************)
(* Concurrent saves of new Transaction documents.  A save runs from one    *)
(* await to the next without interruption: the pre-save hook up to the     *)
(* answer of getNextBlockNumber, the insert, the post-save hook up to the  *)
(* answer of User.findById, and the credit call with its save.             *)
(***************************************************************************)

\* The callers that save at the same time.
Procs == 1..MaxProcs

\* A caller with no save in flight.
Idle == [pc |-> "idle", doc |-> <<>>, loaded |-> <<>>, result |-> "none"]

\* The pre-save hook of a new document without block number: the hash, and
\* the block number getNextBlockNumber finds at this moment.
ReadBlockNumber(p, user, type, category, amount, status, random) ==
    /\ procs[p].pc = "idle"
    /\ procs' = [procs EXCEPT ![p] =
          [pc |-> "numbered",
           doc |-> preSave(
                   [_id |-> 0, user |-> user, type |-> type,
                    category |-> category, amount |-> amount, status |-> status,
                    hash |-> <<>>, blockNumber |-> 0,
                    fees |-> [network |-> 0, processing |-> 0, total |-> 0],
                    confirmationCount |-> 1, verified |-> FALSE,
                    createdAt |-> now], random),
           loaded |-> <<>>, result |-> "none"]]
    /\ UNCHANGED <<now, reqVars, writable, mediaVars, fileVars, dbVars>>

\* The insert of the document as the hook left it.
Insert(p) ==
    /\ procs[p].pc = "numbered"
    /\ IF hashStored(ledger, procs[p].doc.hash)
       THEN /\ procs' = [procs EXCEPT ![p].pc = "done", ![p].result = "duplicate key"]
            /\ UNCHANGED ledger
       ELSE /\ ledger' = Append(ledger, [procs[p].doc EXCEPT !._id = Len(ledger) + 1])
            /\ procs' = [procs EXCEPT ![p].pc = "inserted"]
    /\ UNCHANGED <<now, reqVars, writable, mediaVars, fileVars, accounts, saved, taskDocs, hashCalls>>

\* The post-save hook up to the answer of User.findById.
LoadUser(p) ==
    /\ procs[p].pc = "inserted"
    /\ IF procs[p].doc.status = "confirmed" /\ procs[p].doc.user \in DOMAIN accounts
          /\ procs[p].doc.category \in {"earning", "spending"}
       THEN procs' = [procs EXCEPT ![p].pc = "loaded",
                                   ![p].loaded = accounts[procs[p].doc.user]]
       ELSE procs' = [procs EXCEPT ![p].pc = "done", ![p].result = "ok"]
    /\ UNCHANGED <<now, reqVars, writable, mediaVars, fileVars, dbVars>>

\* The credit call of the post-save hook on the document findById returned,
\* and its save.
WriteBack(p) ==
    LET doc == procs[p].doc
        user == procs[p].loaded
    IN
    /\ procs[p].pc = "loaded"
    /\ IF doc.category = "earning"
       THEN saveAccount(doc.user, addCredits(user, doc.amount))
       ELSE IF canAfford(user, Abs(doc.amount))
       THEN saveAccount(doc.user, deductCredits(user, Abs(doc.amount)))
       ELSE saved' = "Insufficient credits" /\ UNCHANGED accounts
    /\ procs' = [procs EXCEPT ![p].pc = "done", ![p].result = saved']
    /\ UNCHANGED <<now, reqVars, writable, mediaVars, fileVars, ledger, taskDocs, hashCalls>>

(***************************************************************************)
(* Concurrent POST /api/auth/register requests.  A handler runs without    *)
(* interruption up to its first await, the password hashing, and from the  *)
(* answer of the hashing to its response; each caller's response is kept   *)
(* with the caller.                                                        *)
(***************************************************************************)

\* The record the handler gives createUser.
registerData(username, email, password, firstName) ==
    [username |-> username,
     email |-> email,
     password |-> <<"bcrypt", password>>,
     profile |-> [firstName |-> IF Given(firstName) THEN ValueOf(firstName) ELSE ""],
     credits |-> startingCredits(username),
     stats |-> NewStats,
     isActive |-> TRUE,
     lastLogin |-> now]

\* The handler up to await bcrypt.genSalt: the validators and the two
\* lookups.
RegisterCheck(p, username, rawEmail, password, firstName) ==
    LET email == normalizeEmail(rawEmail) IN
    /\ procs[p].pc = "idle"
    /\ IF ~validUsername(username) \/ ~isEmail(rawEmail) \/ ~validPassword(password)
       THEN procs' = [procs EXCEPT ![p].pc = "done", ![p].result = "Validation failed"]
       ELSE IF emailRegistered(email) \/ usernameTaken(username)
       THEN procs' = [procs EXCEPT ![p].pc = "done",
                          ![p].result = IF emailRegistered(email)
                                        THEN "Email already registered"
                                        ELSE "Username already taken"]
       ELSE procs' = [procs EXCEPT ![p].pc = "hashing",
                          ![p].doc = registerData(username, email, password, firstName)]
    /\ UNCHANGED <<now, reqVars, writable, mediaVars, fileVars, dbVars>>

\* The handler from the hashed password on: createUser, the token, the
\* lastLogin update and the 201 response.
RegisterCreate(p) ==
    LET user == newRecord(users, procs[p].doc) IN
    /\ procs[p].pc = "hashing"
    /\ users' = updateRecord(createRecord(users, procs[p].doc), user._id,
                             [lastLogin |-> now])
    /\ procs' = [procs EXCEPT ![p].pc = "done",
                              ![p].result = "User registered successfully"]
    /\ UNCHANGED <<now, reqVars, writable, mediaVars, vouchers, transactions, tasks, resp, dbVars>>

\* One call of generateHash, recorded with its argument.
HashCall(data, random) ==
    /\ hashCalls' = hashCalls \cup {[data |-> data, digest |-> generateHash(data, now, random)]}
    /\ UNCHANGED <<now, reqVars, writable, mediaVars, procs, fileVars, accounts, ledger, saved, taskDocs>>

(***************************************************************************)
(* models/Task                                                             *)
(***************************************************************************)

Min(a, b) == IF a < b THEN a ELSE b

\* A completion test that asks for more than the target.
overTarget(current, target) == current > target

\* The completion test of updateProgress.
reachedTarget(current, target) == current >= target

\* taskSchema.pre('save')
clampProgress(doc) ==
    IF doc.current > doc.target THEN [doc EXCEPT !.current = doc.target] ELSE doc

\* The validators of the schema that the documents of the model can fail:
\* target min 1, current min 0.
validTask(doc) == doc.target >= 1 /\ doc.current >= 0

\* doc.save() of the document at position i (a new one past the end): the
\* validators, then the pre-save hook, then the write.
saveTask(i, doc) ==
    IF validTask(doc)
    THEN IF i > Len(taskDocs)
         THEN taskDocs' = Append(taskDocs, clampProgress(doc))
         ELSE taskDocs' = [taskDocs EXCEPT ![i] = clampProgress(doc)]
    ELSE UNCHANGED taskDocs

\* new Task({target, current, status}).save()
NewTaskDoc(target, current, status) ==
    /\ saveTask(Len(taskDocs) + 1,
                [target |-> target, current |-> current, status |-> status,
                 completedAt |-> {}, evidence |-> <<>>])
    /\ UNCHANGED <<now, reqVars, writable, mediaVars, procs, fileVars, accounts, ledger, saved, hashCalls>>

\* taskSchema.methods.updateProgress
UpdateProgress(i, increment) ==
    LET doc == taskDocs[i]
        moved == [doc EXCEPT !.current = Min(doc.current + increment, doc.target)]
        done == IF reachedTarget(moved.current, moved.target) /\ moved.status = "active"
                THEN [moved EXCEPT !.status = "completed", !.completedAt = {now}]
                ELSE moved
    IN
    /\ saveTask(i, done)
    /\ UNCHANGED <<now, reqVars, writable, mediaVars, procs, fileVars, accounts, ledger, saved, hashCalls>>

\* taskSchema.methods.reset
ResetTask(i) ==
    /\ saveTask(i, [taskDocs[i] EXCEPT !.current = 0, !.status = "active",
                                       !.completedAt = {}, !.evidence = <<>>])
    /\ UNCHANGED <<now, reqVars, writable, mediaVars, procs, fileVars, accounts, ledger, saved, hashCalls>>

\* The data directory stops or starts taking writes (a full or read-only
\* disk, a permission change).
DiskChanges ==
    /\ writable' = ~writable
    /\ UNCHANGED <<now, reqVars, procs, fileVars, dbVars, mediaVars>>

Tick ==
    /\ now < MaxTime
    /\ now' = now + 1
    /\ UNCHANGED <<fileVars, dbVars, reqVars, writable, mediaVars, procs>>

(***************************************************************************)
(* Initial state                                                           *)
(***************************************************************************)

\* The names and addresses of the users registered at the start.
InitUsernames == << <<"a", "n", "n">>, <<"b", "o", "b">> >>
InitEmails == << [local |-> "ann", domain |-> "x.io"], [local |-> "bob", domain |-> "x.io"] >>

NewUser(id) ==
    [_id |-> id, username |-> InitUsernames[id], email |-> InitEmails[id],
     credits |-> WelcomeGrant,
     stats |-> NewStats,
     isActive |-> TRUE, createdAt |-> 0, updatedAt |-> 0]

Voucher(id, credits, active, startDate, endDate, total, perUser, used) ==
    [_id |-> id,
     cost |-> [credits |-> credits],
     validity |-> [startDate |-> startDate, endDate |-> endDate, isActive |-> active],
     usage |-> [limit |-> [total |-> total, perUser |-> perUser, used |-> used]],
     createdAt |-> 0, updatedAt |-> 0]

\* usage.limit.total: null (unlimited) is written 0; the schema's minimum for a
\* total is 1, so 0 is no total a voucher can carry.
InitVouchers ==
    << Voucher(1, 40, TRUE, 0, 9, 2, 2, 0),
       Voucher(2, 150, FALSE, 0, 9, 0, 1, 0),
       Voucher(3, 10, TRUE, 0, 0, 0, 1, 0),
       Voucher(4, 60, TRUE, 1, 9, 1, 2, 1) >>

VoucherIds == {1, 2, 3, 4}
\* A voucher id no record carries.
UnknownVoucherId == Len(InitVouchers) + 1

InitFile ==
    /\ now = 0
    /\ users = <<NewUser(1), NewUser(2)>>
    /\ vouchers = InitVouchers
    /\ transactions = <<>>
    /\ tasks = <<>>
    /\ resp = Response("none", 0, "", NoData)

InitDb ==
    /\ accounts \in [AccountIds -> [credits : {0, WelcomeGrant}]]
    /\ ledger = <<>>
    /\ saved = "none"
    /\ taskDocs = <<>>
    /\ hashCalls = {}

Init == InitFile /\ InitDb /\ req = NoRequest /\ writable = TRUE
        /\ procs = [p \in Procs |-> Idle] /\ sent = <<>>
        /\ photos = <<>> /\ videos = <<>>

RedeemRequest ==
    \E userId \in UserIds, voucherId \in VoucherIds \cup {UnknownVoucherId},
       quantity \in 0..MaxQty :
        /\ Len(transactions) < MaxTx
        /\ Redeem(userId, voucherId, quantity)
        /\ UNCHANGED <<dbVars, reqVars, writable, mediaVars, procs>>

NextRedeem == Tick \/ RedeemRequest

SpecRedeem == Init /\ [][NextRedeem]_vars

\* What Math.random() may return: fractions of [0, 1), written as negative
\* numbers so that none is an integer a caller passes as a nonce.
RandomDraws == {-d : d \in 1..MaxDraws}

\* The documents callers create: the type and the sign the routes give a
\* category.
Earning == <<"task_completion", "earning", 200>>
Spending == <<"voucher_redemption", "spending", -150>>
Bonus == <<"bonus_credit", "bonus", 50>>
Penalty == <<"penalty", "penalty", -30>>

\* An id no User document has.
UnknownAccountId == Cardinality(AccountIds) + 1

\* The creations of the ledger: user, kind, status, block number (0: none).
LedgerRequests ==
    { <<1, Earning, "confirmed", 0>>, <<1, Spending, "confirmed", 0>>,
      <<1, Spending, "pending", 7>>, <<1, Bonus, "confirmed", 0>>,
      <<1, Penalty, "confirmed", 0>>, <<UnknownAccountId, Earning, "confirmed", 0>> }

NewTransactionRequest ==
    \E r \in LedgerRequests, random \in RandomDraws :
        /\ Len(ledger) < MaxLedger
        /\ NewTransaction(r[1], r[2][1], r[2][2], r[2][3], r[3], r[4], random)

ConfirmRequest == \E i \in 1..Len(ledger) : ledger[i].confirmationCount < MaxConfirm /\ Confirm(i)
FailRequest == \E i \in 1..Len(ledger) : Fail(i)
CancelRequest == \E i \in 1..Len(ledger) : Cancel(i)

NextLedger == NewTransactionRequest \/ ConfirmRequest \/ FailRequest \/ CancelRequest

SpecLedger == Init /\ [][NextLedger]_vars

\* Creations one after another, none with a block number of its caller's.
NewTransactionUnnumbered ==
    \E user \in AccountIds \cup {UnknownAccountId}, k \in {Earning, Spending},
       status \in {"confirmed", "pending"}, random \in RandomDraws :
        /\ Len(ledger) < MaxChain
        /\ NewTransaction(user, k[1], k[2], k[3], status, 0, random)

NextChain == NewTransactionUnnumbered

SpecChain == Init /\ [][NextChain]_vars

\* The arguments of the generateHash calls.
HashData ==
    [user : {1}, type : {"task_completion"}, amount : {200},
     timestamp : {{}} \cup {{t} : t \in 0..MaxTime},
     nonce : {{}} \cup {{n} : n \in 0..MaxNonce}]

HashCallRequest ==
    \E data \in HashData, random \in RandomDraws :
        /\ Cardinality(hashCalls) < MaxCalls
        /\ HashCall(data, random)

NextHash == Tick \/ HashCallRequest

SpecHash == Init /\ [][NextHash]_vars

\* The increments of updateProgress; 1 is the default.
Increments == (-1)..MaxTarget

NewTaskDocRequest ==
    \E target \in 1..MaxTarget, current \in 0..(MaxTarget + 1),
       status \in {"active", "expired"} :
        /\ Len(taskDocs) < MaxDocs
        /\ NewTaskDoc(target, current, status)

UpdateProgressRequest ==
    \E i \in 1..Len(taskDocs), increment \in Increments : UpdateProgress(i, increment)

ResetTaskRequest == \E i \in 1..Len(taskDocs) : ResetTask(i)

NextTaskDocs == Tick \/ NewTaskDocRequest \/ UpdateProgressRequest \/ ResetTaskRequest

SpecTaskDocs == Init /\ [][NextTaskDocs]_vars

\* The registrations sent: names, addresses and passwords that pass the
\* validators or fail them, new or already used.
RegisterUsernames ==
    { <<"a", "n", "n">>, <<"c", "a", "t">>, <<"C", "a", "t", "_", "1">>, <<"a", "l">> }
RegisterEmails ==
    { [local |-> "Ann", domain |-> "x.io"], [local |-> "cat", domain |-> "x.io"],
      [local |-> "cat", domain |-> "X.io"], [local |-> "al", domain |-> "x.io"],
      [local |-> "", domain |-> "x.io"] }
RegisterPasswords ==
    { <<"A", "b", "c", "1", "a", "b">>, <<"a", "b", "c", "1", "2", "a">> }

RegisterRequest ==
    \E username \in RegisterUsernames, email \in RegisterEmails,
       password \in RegisterPasswords, firstName \in {{}, {"Cat"}} :
        /\ Len(users) < MaxUsers
        /\ Register(username, email, password, firstName)
        /\ UNCHANGED <<dbVars, reqVars, writable, mediaVars, procs>>

\* The tokens requests carry: signed by the server or not, for a user that
\* exists or not, expiring at the next tick or a token life from the start.
AuthTokens ==
    [userId : 1..MaxUsers, signed : BOOLEAN, exp : {1, TokenLife}]

AuthHeaders ==
    {{}} \cup {{<<"Bearer">>}} \cup {{<<scheme, t>>} : scheme \in {"Bearer", "Basic"}, t \in AuthTokens}

AuthRequest == \E authHeader \in AuthHeaders : Auth(authHeader) /\ UNCHANGED <<dbVars, writable, mediaVars, procs>>

DeactivateRequest == \E userId \in UserIds : Deactivate(userId) /\ UNCHANGED <<dbVars, writable, mediaVars, procs>>

NextAuth == Tick \/ RegisterRequest

SpecAuth == Init /\ [][NextAuth]_vars

NextGuard == Tick \/ AuthRequest \/ DeactivateRequest

SpecGuard == Init /\ [][NextGuard]_vars

AdminAuthRequest ==
    \E authHeader \in AuthHeaders : AdminAuth(authHeader) /\ UNCHANGED <<dbVars, writable, mediaVars, procs>>

GrantAdminRequest == \E userId \in UserIds : GrantAdmin(userId) /\ UNCHANGED <<dbVars, writable, mediaVars, procs>>

NextAdmin == Tick \/ AdminAuthRequest \/ GrantAdminRequest

SpecAdmin == Init /\ [][NextAdmin]_vars

\* Two callers who create, read, change and delete tasks, photos and videos
\* by id, their own and each other's, and list their tasks and transactions.
\* The tasks, photos and videos stored.
owned == Len(tasks) + Len(photos) + Len(videos)

OwnedIds == 1..MaxOwned

OwnersPostTask ==
    \E userId \in UserIds :
        /\ owned < MaxOwned
        /\ PostTask(userId, "daily", 200)
        /\ UNCHANGED <<dbVars, reqVars, writable, mediaVars, procs>>

OwnersPutTask ==
    \E userId \in UserIds, id \in OwnedIds, status \in {{"in_progress"}} :
        PutTask(userId, id, status, {}) /\ UNCHANGED <<dbVars, reqVars, writable, mediaVars, procs>>

OwnersDeleteTask ==
    \E userId \in UserIds, id \in OwnedIds :
        DeleteTask(userId, id) /\ UNCHANGED <<dbVars, reqVars, writable, mediaVars, procs>>

OwnersGetTasks ==
    \E userId \in UserIds :
        GetTasks(userId, {}, {}, {}, {}) /\ UNCHANGED <<dbVars, reqVars, writable, procs>>

OwnersGetTransactions ==
    \E userId \in UserIds :
        /\ GetTransactions(userId, {}, {}, {}, {}, {}, {}, {})
        /\ UNCHANGED <<dbVars, reqVars, writable, mediaVars, procs>>

OwnersUploadPhoto ==
    \E userId \in UserIds :
        /\ owned < MaxOwned
        /\ UploadPhoto(userId, {})
        /\ UNCHANGED <<dbVars, reqVars, writable, procs>>

OwnersGetPhoto ==
    \E userId \in UserIds, id \in OwnedIds :
        GetPhoto(userId, id) /\ UNCHANGED <<dbVars, reqVars, writable, procs>>

OwnersDeletePhoto ==
    \E userId \in UserIds, id \in OwnedIds :
        DeletePhoto(userId, id) /\ UNCHANGED <<dbVars, reqVars, writable, procs>>

OwnersUploadVideo ==
    \E userId \in UserIds :
        /\ owned < MaxOwned
        /\ UploadVideo(userId, "selfie-clean")
        /\ UNCHANGED <<dbVars, reqVars, writable, procs>>

OwnersGetVideo ==
    \E userId \in UserIds, id \in OwnedIds :
        GetVideo(userId, id) /\ UNCHANGED <<dbVars, reqVars, writable, procs>>

OwnersGrantAdmin == GrantAdmin(1) /\ UNCHANGED <<dbVars, writable, mediaVars, procs>>

NextOwners ==
    \/ OwnersPostTask \/ OwnersPutTask \/ OwnersDeleteTask \/ OwnersGetTasks
    \/ OwnersGetTransactions
    \/ OwnersUploadPhoto \/ OwnersGetPhoto \/ OwnersDeletePhoto
    \/ OwnersUploadVideo \/ OwnersGetVideo
    \/ OwnersGrantAdmin

SpecOwners == Init /\ [][NextOwners]_vars

\* Requests that earn credits: tasks created and completed, photos uploaded.
AwardsPostTask ==
    \E userId \in UserIds :
        /\ Len(tasks) + Len(photos) < MaxOwned
        /\ PostTask(userId, "daily", 200)
        /\ UNCHANGED <<dbVars, reqVars, writable, mediaVars, procs>>

AwardsPutTask ==
    \E userId \in UserIds, id \in OwnedIds,
       status \in {{"in_progress"}, {"completed"}} :
        /\ Len(transactions) < MaxTx
        /\ PutTask(userId, id, status, {})
        /\ UNCHANGED <<dbVars, reqVars, writable, mediaVars, procs>>

AwardsUploadPhoto ==
    \E userId \in UserIds, category \in {{}, {"selfie"}} :
        /\ Len(tasks) + Len(photos) < MaxOwned
        /\ Len(transactions) < MaxTx
        /\ UploadPhoto(userId, category)
        /\ UNCHANGED <<dbVars, reqVars, writable, procs>>

NextAwards == AwardsPostTask \/ AwardsPutTask \/ AwardsUploadPhoto

SpecAwards == Init /\ [][NextAwards]_vars

\* The amounts of the credit calls.
CreditAmounts == {-1, 0, 1, 7, 30, 150}

AddCreditsRequest ==
    \E id \in AccountIds, amount \in CreditAmounts :
        /\ accounts[id].credits + amount <= MaxBalance
        /\ AddCredits(id, amount)

DeductCreditsRequest ==
    \E id \in AccountIds, amount \in CreditAmounts :
        /\ accounts[id].credits - amount <= MaxBalance
        /\ DeductCredits(id, amount)

NextCredits == AddCreditsRequest \/ DeductCreditsRequest

SpecCredits == Init /\ [][NextCredits]_vars

\* Requests that write, on a disk that may refuse the write.
IoPostRequest ==
    \E userId \in UserIds, category \in {"earning", "spending"} :
        /\ Len(transactions) < MaxItems
        /\ PostTransaction(userId, "earning", category, 10)
        /\ UNCHANGED <<dbVars, reqVars, writable, mediaVars, procs>>

IoRedeemRequest ==
    \E userId \in UserIds, voucherId \in VoucherIds, quantity \in 1..MaxQty :
        /\ Len(transactions) < MaxItems
        /\ Redeem(userId, voucherId, quantity)
        /\ UNCHANGED <<dbVars, reqVars, writable, mediaVars, procs>>

NextIo == DiskChanges \/ IoPostRequest \/ IoRedeemRequest

SpecIo == Init /\ [][NextIo]_vars

\* A debit the welcome grant pays once and not twice.
SmallSpending == <<"voucher_redemption", "spending", -60>>

\* The documents the concurrent callers save, one each.
RaceKinds == {Earning, SmallSpending}

ReadBlockNumberRequest ==
    \E p \in Procs, k \in RaceKinds, random \in RandomDraws :
        ReadBlockNumber(p, 1, k[1], k[2], k[3], "confirmed", random)

InsertStep == \E p \in Procs : Insert(p)
LoadUserStep == \E p \in Procs : LoadUser(p)
WriteBackStep == \E p \in Procs : WriteBack(p)

NextRace == ReadBlockNumberRequest \/ InsertStep \/ LoadUserStep \/ WriteBackStep

SpecRace == Init /\ [][NextRace]_vars

\* The registrations sent at the same time: a new name and address, the same
\* ones again from a second caller, ones already registered and a name too
\* short.
RaceUsernames ==
    { <<"c", "a", "t">>, <<"a", "l", "_", "1">>, <<"a", "n", "n">>, <<"a", "l">> }
RaceEmails ==
    { [local |-> "cat", domain |-> "x.io"], [local |-> "cat", domain |-> "X.io"],
      [local |-> "ann", domain |-> "x.io"] }

RegisterCheckRequest ==
    \E p \in Procs, username \in RaceUsernames, email \in RaceEmails :
        \E firstName \in {{}, {"Cat"}} :
            RegisterCheck(p, username, email, <<"A", "b", "c", "1", "a", "b">>, firstName)

RegisterCreateStep == \E p \in Procs : RegisterCreate(p)

NextRegisterRace == RegisterCheckRequest \/ RegisterCreateStep

SpecRegisterRace == Init /\ [][NextRegisterRace]_vars

TaskIds == 1..MaxTasks

PostTaskRequest ==
    \E userId \in UserIds, type \in {"daily", "yearly"}, credits \in {200} :
        /\ Len(tasks) < MaxTasks
        /\ PostTask(userId, type, credits)
        /\ UNCHANGED <<dbVars, reqVars, writable, mediaVars, procs>>

PutTaskRequest ==
    \E userId \in UserIds, id \in TaskIds,
       status \in {{}, {"pending"}, {"completed"}, {"done"}},
       progress \in {{}, {100}} :
        /\ Len(transactions) < MaxTx
        /\ PutTask(userId, id, status, progress)
        /\ UNCHANGED <<dbVars, reqVars, writable, mediaVars, procs>>

DeleteTaskRequest ==
    \E userId \in UserIds, id \in TaskIds :
        DeleteTask(userId, id) /\ UNCHANGED <<dbVars, reqVars, writable, mediaVars, procs>>

NextTasks == PostTaskRequest \/ PutTaskRequest \/ DeleteTaskRequest

SpecTasks == Init /\ [][NextTasks]_vars

PostTransactionRequest ==
    \E userId \in UserIds, category \in {"earning", "bonus"} :
        /\ Len(transactions) < MaxItems
        /\ PostTransaction(userId, "earning", category, 10)
        /\ UNCHANGED <<dbVars, reqVars, writable, mediaVars, procs>>

\* The query strings of the paging requests.
PageLimits == {{}} \cup {{l} : l \in 0..MaxLimit}
PageOffsets == {{}} \cup {{o} : o \in 0..MaxOffset}
PageQueries ==
    UserIds \X {{}} \X {{}} \X {{}} \X PageLimits \X PageOffsets \X {{}} \X {{}}

GetStep(q) == GetTransactions(q[1], q[2], q[3], q[4], q[5], q[6], q[7], q[8])

GetTransactionsRequest == \E q \in PageQueries : GetStep(q) /\ UNCHANGED <<dbVars, reqVars, writable, mediaVars, procs>>

\* The clock of the paging runs: the ledger's records are at most MaxAge old.
PageTick == now < MaxAge /\ Tick

\* Records of both categories, and queries that filter by type and category.
PostMixedRequest ==
    \E userId \in UserIds, type \in {"earning", "spending"},
       category \in {"earning", "spending"} :
        /\ Len(transactions) < MaxItems
        /\ PostTransaction(userId, type, category, 10)
        /\ UNCHANGED <<dbVars, reqVars, writable, mediaVars, procs>>

FilterQueries ==
    UserIds \X {{}, {"earning"}} \X {{}, {"earning"}, {"spending"}} \X {{}, {"completed"}}
        \X {{}} \X {{}} \X {{}, {1}} \X {{}}

GetFilteredRequest == \E q \in FilterQueries : GetStep(q) /\ UNCHANGED <<dbVars, reqVars, writable, mediaVars, procs>>

NextFilter == PageTick \/ PostMixedRequest \/ GetFilteredRequest

SpecFilter == Init /\ [][NextFilter]_vars

NextPage == PageTick \/ PostTransactionRequest \/ GetTransactionsRequest

SpecPage == Init /\ [][NextPage]_vars

(***************************************************************************)
(* The ledger of the database: C1, C8, C9                                  *)
(***************************************************************************)

\* The positions of the documents a step saved.
savedAt == { i \in 1..Len(ledger') : i > Len(ledger) \/ ledger'[i] # ledger[i] }

\* C1: every save of a transaction with status 'confirmed' whose user exists
\* moves that user's balance by amount when the category is 'earning' and by
\* minus abs(amount) when it is 'spending', and leaves the balance at 0 or more.
C1_ConfirmedSaveMovesBalance ==
    [][\A i \in savedAt :
          LET doc == ledger'[i] IN
          (doc.status = "confirmed" /\ doc.user \in DOMAIN accounts) =>
             /\ doc.category = "earning" =>
                   accounts'[doc.user].credits = accounts[doc.user].credits + doc.amount
             /\ doc.category = "spending" =>
                   accounts'[doc.user].credits = accounts[doc.user].credits - Abs(doc.amount)
             /\ accounts'[doc.user].credits >= 0
      ]_vars

C9_HashDeterminedByTuple ==
    \A a \in hashCalls, b \in hashCalls :
        (/\ Given(a.data.timestamp) /\ Given(a.data.nonce)
         /\ Given(b.data.timestamp) /\ Given(b.data.nonce))
        => (a.data = b.data <=> a.digest = b.digest)

(***************************************************************************)
(* Task progress: C7                                                       *)
(***************************************************************************)

\* C7: no stored task has current above target; an updateProgress call that
\* takes the progress of an active task to its target or past it leaves the
\* task completed, stamped with the time of the call and with current equal to
\* target; and updateProgress marks no task completed whose progress stays
\* below the target.
C7_ProgressCappedAndCompleted ==
    [][/\ \A i \in 1..Len(taskDocs') : taskDocs'[i].current <= taskDocs'[i].target
       /\ \A i \in 1..Len(taskDocs), increment \in Increments :
             UpdateProgress(i, increment) =>
                LET old == taskDocs[i]
                    new == taskDocs'[i]
                IN /\ (old.status = "active" /\ old.current + increment >= old.target) =>
                          /\ new.status = "completed"
                          /\ new.completedAt = {now}
                          /\ new.current = new.target
                   /\ (new.status = "completed" /\ old.status # "completed") =>
                          new.current = new.target
      ]_vars

C7_Witness ==
    \E i \in 1..Len(taskDocs) :
        /\ taskDocs[i].target = MaxTarget
        /\ taskDocs[i].current = taskDocs[i].target
        /\ taskDocs[i].status = "completed"
        /\ taskDocs[i].completedAt = {MaxTime}

(***************************************************************************)
(* Registration: C11                                                       *)
(***************************************************************************)

\* C11: a registration that is answered 201 adds exactly one user record, and
\* that record holds the welcome grant of 100 credits; a registration that is
\* rejected, for a validation failure or for an email or a username already in
\* use, leaves the user records as they were.
C11_RegisterGrantsWelcomeCredits ==
    [][\A username \in RegisterUsernames, email \in RegisterEmails,
          password \in RegisterPasswords, firstName \in {{}, {"Cat"}} :
          Register(username, email, password, firstName) =>
             IF resp'.status = 201
             THEN /\ Len(users') = Len(users) + 1
                  /\ \A i \in 1..Len(users) : users'[i] = users[i]
                  /\ users'[Len(users')].credits = 100
                  /\ resp'.data.user.credits = 100
             ELSE /\ users' = users
                  /\ \/ ~validUsername(username) \/ ~isEmail(email)
                     \/ ~validPassword(password)
                     \/ \E i \in 1..Len(users) :
                           \/ users[i].email = normalizeEmail(email)
                           \/ users[i].username = username
      ]_vars

C11_Witness ==
    /\ resp.route = RegisterRoute
    /\ resp.status = 201
    /\ Len(users) = Len(InitUsernames) + 1
    /\ users[Len(users)].email = [local |-> "cat", domain |-> "x.io"]
    /\ users[Len(users)].credits = WelcomeGrant
    /\ users[Len(users)].createdAt > 0

(***************************************************************************)
(* Balance of a User document: C12                                         *)
(***************************************************************************)

\* C12: deductCredits(amount) ends with 'Insufficient credits' and leaves the
\* stored balance as it was when amount is above the balance, and otherwise
\* stores the balance minus amount; and no addCredits or deductCredits call
\* leaves a stored balance below 0.
C12_DeductChecksBalance ==
    [][/\ \A id \in AccountIds, amount \in CreditAmounts :
             DeductCredits(id, amount) =>
                IF amount > accounts[id].credits
                THEN saved' = "Insufficient credits" /\ accounts' = accounts
                ELSE /\ saved' = "ok"
                     /\ accounts'[id].credits = accounts[id].credits - amount
       /\ \A id \in AccountIds : accounts'[id].credits >= 0
      ]_vars

C12_Witness ==
    /\ saved = "Insufficient credits"
    /\ accounts[1].credits = 29
    /\ ledger = <<>>

(***************************************************************************)
(* Voucher redemption: C2 .. C5                                            *)
(***************************************************************************)

\* The requests the redemption claims range over: an authenticated user, a
\* stored voucher, a quantity the validator accepts.
\* The ids of the records of a collection.
idsOf(list) == {list[i]._id : i \in 1..Len(list)}

RedeemInputs == UserIds \X VoucherIds \X (1..MaxQty)

userOf(r) == users[findUser(r[1])]
voucherOf(r) == vouchers[findIndexById(vouchers, r[2])]
RedeemStep(r) == Redeem(r[1], r[2], r[3])

\* C2: for a voucher with a finite total, a redemption that would take the
\* used counter past total is rejected and changes neither the voucher, the
\* user's balance nor the ledger.
C2_RedeemBeyondTotalRejected ==
    [][\A r \in RedeemInputs :
          (/\ voucherOf(r).usage.limit.total # 0
           /\ voucherOf(r).usage.limit.used + r[3] > voucherOf(r).usage.limit.total
           /\ RedeemStep(r))
          => /\ resp'.status # 200
             /\ UNCHANGED <<users, vouchers, transactions>>]_vars

\* C3: a successful redeem of quantity q on a voucher costing c by a user with
\* balance b >= c*q stores the balance b - c*q, appends exactly one ledger
\* entry (spending, voucher_redemption, amount -(c*q), referencing the voucher)
\* and reports newBalance = b - c*q.
C3_RedeemDebitsAndRecords ==
    [][\A r \in RedeemInputs :
          (resp'.status = 200 /\ RedeemStep(r))
          => LET b == userOf(r).credits
                 c == voucherOf(r).cost.credits
                 q == r[3]
                 entry == transactions'[Len(transactions')]
             IN
             /\ b >= c * q
             /\ users'[findUser(r[1])].credits = b - c * q
             /\ \A i \in 1..Len(users) :
                    users[i]._id # r[1] => users'[i] = users[i]
             /\ Len(transactions') = Len(transactions) + 1
             /\ SubSeq(transactions', 1, Len(transactions)) = transactions
             /\ entry.user = r[1]
             /\ entry.category = "spending"
             /\ entry.type = "voucher_redemption"
             /\ entry.amount = -(c * q)
             /\ entry.metadata.voucherId = r[2]
             /\ resp'.data.transaction.newBalance = b - c * q]_vars

\* A redemption of two vouchers of 40 credits from the welcome grant succeeded.
C3_Witness ==
    /\ resp.route = RedeemRoute
    /\ resp.status = 200
    /\ resp.data.transaction.newBalance = WelcomeGrant - 80
    /\ \E i \in 1..Len(users) : users[i].credits = WelcomeGrant - 80

\* C4: each successful redemption of quantity q increments the stored
\* voucher's usage.limit.used by q.
C4_UsedCounterIncrements ==
    [][\A r \in RedeemInputs :
          (resp'.status = 200 /\ RedeemStep(r))
          => vouchers'[findIndexById(vouchers, r[2])].usage.limit.used
                = voucherOf(r).usage.limit.used + r[3]]_vars

\* C5 as stated: every redeem whose total cost exceeds the balance is
\* rejected with the reason 'Insufficient credits' and changes nothing.
C5_AsStated ==
    [][\A r \in RedeemInputs :
          (voucherOf(r).cost.credits * r[3] > userOf(r).credits /\ RedeemStep(r))
          => /\ resp'.status = 400
             /\ resp'.message = "Insufficient credits"
             /\ UNCHANGED <<users, vouchers, transactions>>]_vars

\* The checks the handler runs before it compares the cost with the balance.
EarlierChecksPass(r) ==
    /\ voucherOf(r).validity.isActive
    /\ voucherOf(r).validity.startDate <= now
    /\ now <= voucherOf(r).validity.endDate
    /\ r[3] <= voucherOf(r).usage.limit.perUser

\* C5, amended: every redeem whose total cost exceeds the balance is rejected
\* and changes neither the balance, the voucher nor the ledger; the reason is
\* 'Insufficient credits' when the voucher is active, within its validity
\* window and the quantity is within the per-user cap.
C5_InsufficientCreditsRejected ==
    [][\A r \in RedeemInputs :
          (voucherOf(r).cost.credits * r[3] > userOf(r).credits /\ RedeemStep(r))
          => /\ resp'.status = 400
             /\ UNCHANGED <<users, vouchers, transactions>>
             /\ EarlierChecksPass(r) => resp'.message = "Insufficient credits"]_vars

\* A redeem was rejected for insufficient credits by a user who had spent
\* part of the welcome grant.
C5_Witness ==
    /\ resp.route = RedeemRoute
    /\ resp.message = "Insufficient credits"
    /\ \E i \in 1..Len(users) : users[i].credits < WelcomeGrant

(***************************************************************************)
(* Order of the redeem preconditions: C13                                  *)
(***************************************************************************)

\* The requests of a known user for a voucher that exists or not.
OrderInputs == UserIds \X (VoucherIds \cup {UnknownVoucherId}) \X (1..MaxQty)

\* The reason of the first precondition a request fails, in the order voucher
\* exists, active, within its window, quantity within the per-user cap, cost
\* within the balance; "none" when it fails none of them.
firstFailure(r) ==
    IF r[2] \notin idsOf(vouchers) THEN "Voucher not found"
    ELSE IF ~voucherOf(r).validity.isActive THEN "Voucher is not active"
    ELSE IF ~(voucherOf(r).validity.startDate <= now /\ now <= voucherOf(r).validity.endDate)
         THEN "Voucher is expired or not yet active"
    ELSE IF r[3] > voucherOf(r).usage.limit.perUser
         THEN "Maximum perUser vouchers per user allowed"
    ELSE IF voucherOf(r).cost.credits * r[3] > userOf(r).credits
         THEN "Insufficient credits"
    ELSE "none"

\* C13: a redeem request is answered with the reason of the first precondition
\* it fails, in the order voucher exists, voucher active, time within the
\* window, quantity within the per-user cap, cost within the balance, and then
\* changes no user, voucher or ledger record; it succeeds only when it fails
\* none of them.
C13_FirstFailingPreconditionReported ==
    [][\A r \in OrderInputs :
          RedeemStep(r) =>
             IF firstFailure(r) = "none"
             THEN resp'.status = 200
             ELSE /\ resp'.status \in {400, 404}
                  /\ resp'.message = firstFailure(r)
                  /\ UNCHANGED <<users, vouchers, transactions>>
      ]_vars

\* An inactive voucher that also costs more than any balance was refused as
\* inactive, after a redemption had changed the records.
C13_Witness ==
    /\ resp.route = RedeemRoute
    /\ resp.message = "Voucher is not active"
    /\ transactions # <<>>
    /\ \A i \in 1..Len(users) : users[i].credits < 150

(***************************************************************************)
(* Filters of GET /transactions: C14                                       *)
(***************************************************************************)

\* Whether a record passes every filter a query supplies.
matches(t, q) ==
    /\ t.user = q[1]
    /\ Given(q[2]) => t.type = ValueOf(q[2])
    /\ Given(q[3]) => t.category = ValueOf(q[3])
    /\ Given(q[4]) => t.status = ValueOf(q[4])
    /\ Given(q[7]) => t.createdAt >= ValueOf(q[7])
    /\ Given(q[8]) => t.createdAt <= ValueOf(q[8])

\* C14: every record a successful GET /transactions returns passes each filter
\* the query supplies (type, category, status, date range), the records come
\* newest first, and total is the number of stored records that pass them.
C14_OnlyMatchingReturned ==
    [][\A q \in FilterQueries :
          (GetStep(q) /\ resp'.status = 200) =>
             LET page == resp'.data.transactions IN
             /\ \A i \in 1..Len(page) : matches(page[i], q)
             /\ \A i \in 1..(Len(page) - 1) : page[i].createdAt >= page[i + 1].createdAt
             /\ resp'.data.pagination.total =
                   Cardinality({i \in 1..Len(transactions) : matches(transactions[i], q)})
      ]_vars

(***************************************************************************)
(* The auth middleware: C15                                                *)
(***************************************************************************)

\* The case a request falls in by its Authorization header alone.
headerCase(authHeader) ==
    IF ~Given(authHeader) THEN "missing"
    ELSE IF ~(Len(ValueOf(authHeader)) = 2 /\ ValueOf(authHeader)[1] = "Bearer")
    THEN "malformed"
    ELSE IF ~ValueOf(authHeader)[2].signed THEN "invalid"
    ELSE IF ValueOf(authHeader)[2].exp <= now THEN "expired"
    ELSE "verified"

\* The message of the middleware for each case of a refused header.
messageOf ==
    [missing |-> "No token provided, authorization denied",
     malformed |-> "Invalid token format. Use Bearer token",
     invalid |-> "Invalid token",
     expired |-> "Token expired"]

\* C15: a request without an Authorization header, with a header that is not
\* 'Bearer <token>', with an invalid token or with an expired token is
\* answered 401 with the message of its case, the four messages differing
\* from each other; next is called, with req.userId and req.user set, exactly
\* when the token verifies and names a stored, active user; and a request that
\* is refused never reaches next.
C15_AuthRejectsWithDistinctMessages ==
    [][\A authHeader \in AuthHeaders :
          Auth(authHeader) =>
             LET case == headerCase(authHeader) IN
             /\ case # "verified" =>
                   /\ resp'.status = 401
                   /\ resp'.message = messageOf[case]
                   /\ \A other \in (DOMAIN messageOf) \ {case} :
                         resp'.message # messageOf[other]
             /\ req'.next <=>
                   /\ case = "verified"
                   /\ \E i \in 1..Len(users) :
                         /\ users[i]._id = ValueOf(authHeader)[2].userId
                         /\ users[i].isActive
                         /\ req'.user = users[i]
                         /\ req'.userId = users[i]._id
             /\ ~req'.next => resp'.status = 401
             /\ req'.next => resp'.status = 0
      ]_vars

\* A signed token was refused as expired once its time had passed.
C15_Witness ==
    /\ resp.route = AuthRoute
    /\ resp.message = "Token expired"
    /\ ~req.next
    /\ now > 0
    /\ \E i \in 1..Len(users) : ~users[i].isActive

(***************************************************************************)
(* Failing writes: C16                                                     *)
(***************************************************************************)

\* C16: a request that writes reports success (200 or 201) only for what the
\* files hold afterwards: the transaction a POST /transactions answers with is
\* stored, and after a successful redeem the user's stored balance is the
\* newBalance of the answer and the ledger has grown by the redemption.
C16_SuccessMeansPersisted ==
    [][/\ \A userId \in UserIds, category \in {"earning", "spending"} :
             (PostTransaction(userId, "earning", category, 10) /\ resp'.status = 201)
             => \E i \in 1..Len(transactions') :
                   transactions'[i] = resp'.data.transaction
       /\ \A r \in RedeemInputs :
             (RedeemStep(r) /\ resp'.status = 200)
             => /\ users'[findUser(r[1])].credits = resp'.data.transaction.newBalance
                /\ Len(transactions') = Len(transactions) + 1
      ]_vars

(***************************************************************************)
(* Concurrent saves: C17, C18, C19                                         *)
(***************************************************************************)

RaceInputs == RaceKinds \X RandomDraws

\* The callers whose save has run to its end.
finished(p) == procs[p].pc = "done"

\* C17: a creation computes its block number as the largest stored one plus 1
\* (1 on an empty ledger) at the time of its read and stores exactly that
\* number at its insert, whatever was persisted in between; so two concurrent
\* creations that both read before either inserts are stored with the same
\* block number.
C17_BlockNumberReadThenWritten ==
    [][\A p \in Procs :
          /\ \A r \in RaceInputs :
                ReadBlockNumber(p, 1, r[1][1], r[1][2], r[1][3], "confirmed", r[2]) =>
                   procs'[p].doc.blockNumber =
                      IF ledger = <<>> THEN 1
                      ELSE 1 + CHOOSE n \in {ledger[i].blockNumber : i \in 1..Len(ledger)} :
                                  \A i \in 1..Len(ledger) : ledger[i].blockNumber <= n
          /\ (Insert(p) /\ Len(ledger') > Len(ledger)) =>
                ledger'[Len(ledger')].blockNumber = procs[p].doc.blockNumber
      ]_vars

\* Two concurrent creations are both stored, with the same block number.
C17_Witness ==
    /\ \A p \in Procs : procs[p].pc = "inserted"
    /\ \E i \in 1..Len(ledger), j \in 1..Len(ledger) :
          /\ i < j
          /\ ledger[i].blockNumber = ledger[j].blockNumber
          /\ ledger[i].hash # ledger[j].hash

\* C18: a debit is checked against the balance it loaded and writes that
\* balance minus its amount, whatever the stored balance has become since; so
\* two concurrent debits, each affordable alone and not together, both succeed
\* when both load before either writes.
C18_DebitCheckedAgainstLoadedBalance ==
    [][\A p \in Procs :
          (WriteBack(p) /\ procs[p].doc.category = "spending") =>
             LET b == procs[p].loaded.credits
                 a == Abs(procs[p].doc.amount)
             IN IF a <= b
                THEN /\ procs'[p].result = "ok"
                     /\ accounts'[procs[p].doc.user].credits = b - a
                ELSE /\ procs'[p].result = "Insufficient credits"
                     /\ accounts' = accounts
      ]_vars

\* Two debits of 60 against a balance of 100 have both succeeded.
C18_Witness ==
    /\ \A p \in Procs :
          /\ finished(p)
          /\ procs[p].result = "ok"
          /\ procs[p].doc.category = "spending"
          /\ procs[p].loaded.credits = WelcomeGrant
          /\ 2 * Abs(procs[p].doc.amount) > WelcomeGrant
    /\ Cardinality({i \in 1..Len(ledger) : ledger[i].category = "spending"}) = MaxProcs
    /\ accounts[1].credits = WelcomeGrant - 60

\* C19: an earn writes the balance it loaded plus its amount, whatever the
\* stored balance has become since; so of two concurrent earns that both load
\* before either writes one is lost, although both ledger entries exist.
C19_EarnWritesLoadedBalancePlusAmount ==
    [][\A p \in Procs :
          (WriteBack(p) /\ procs[p].doc.category = "earning") =>
             /\ procs'[p].result = "ok"
             /\ accounts'[procs[p].doc.user].credits =
                   procs[p].loaded.credits + procs[p].doc.amount
      ]_vars

\* Two earns of 200 on a balance of 100 have ended, both entries are stored
\* and the balance is 300.
C19_Witness ==
    /\ \A p \in Procs :
          /\ finished(p)
          /\ procs[p].result = "ok"
          /\ procs[p].doc.category = "earning"
          /\ procs[p].loaded.credits = WelcomeGrant
    /\ Len(ledger) = MaxProcs
    /\ \A i \in 1..Len(ledger) : ledger[i].category = "earning"
    /\ accounts[1].credits = WelcomeGrant + 200

(***************************************************************************)
(* The per-user cap: C20                                                   *)
(***************************************************************************)

\* C20: a redeem for a quantity within the per-user cap, of an active voucher
\* within its window by a user who can pay, succeeds whatever quantity the
\* user has redeemed of the voucher before, and the quantity the user has
\* redeemed grows by it; so repeated calls take a user's total past the cap.
C20_CapCheckedPerRequest ==
    [][\A r \in RedeemInputs :
          (/\ RedeemStep(r)
           /\ voucherOf(r).validity.isActive
           /\ voucherOf(r).validity.startDate <= now
           /\ now <= voucherOf(r).validity.endDate
           /\ r[3] <= voucherOf(r).usage.limit.perUser
           /\ voucherOf(r).cost.credits * r[3] <= userOf(r).credits)
          => /\ resp'.status = 200
             /\ redeemedBy(transactions', r[1], r[2])
                   = redeemedBy(transactions, r[1], r[2]) + r[3]
      ]_vars

\* A user has redeemed more of a voucher than its per-user cap, in calls that
\* each stayed within the cap.
C20_Witness ==
    /\ resp.route = RedeemRoute
    /\ resp.status = 200
    /\ \E userId \in UserIds, v \in 1..Len(vouchers) :
          /\ redeemedBy(transactions, userId, vouchers[v]._id)
                > vouchers[v].usage.limit.perUser
          /\ \A i \in 1..Len(transactions) :
                transactions[i].metadata.quantity <= vouchers[v].usage.limit.perUser

(***************************************************************************)
(* The balance effect by category: C21                                     *)
(***************************************************************************)

\* C21: a save of a confirmed transaction whose user exists and, for a debit,
\* can afford it adds amount to the balance when the category is 'earning' or
\* 'bonus' and subtracts abs(amount) when it is 'spending' or 'penalty'.
C21_AllFourCategoriesMoveBalance ==
    [][\A i \in savedAt :
          LET doc == ledger'[i]
              before == accounts[doc.user].credits
          IN
          (/\ doc.status = "confirmed"
           /\ doc.user \in DOMAIN accounts
           /\ doc.category \in {"spending", "penalty"} => Abs(doc.amount) <= before)
          => /\ doc.category \in {"earning", "bonus"} =>
                   accounts'[doc.user].credits = before + doc.amount
             /\ doc.category \in {"spending", "penalty"} =>
                   accounts'[doc.user].credits = before - Abs(doc.amount)
      ]_vars

(***************************************************************************)
(* The task status machine: C22                                            *)
(***************************************************************************)

TerminalStatuses == {"completed", "expired", "cancelled"}

\* C22: no request changes the status of a stored task that is completed,
\* expired or cancelled: a task that is kept keeps its terminal status.
C22_TerminalStatusKept ==
    [][\A i \in 1..Len(tasks) : \A j \in 1..Len(tasks') :
          (tasks'[j]._id = tasks[i]._id /\ tasks[i].status \in TerminalStatuses)
          => tasks'[j].status = tasks[i].status
      ]_vars

(***************************************************************************)
(* The transaction status machine: C23                                     *)
(***************************************************************************)

\* C23: the status of a stored transaction changes only when it was
\* 'pending', and user, type, category, amount, hash and blockNumber of a
\* stored transaction never change.
C23_StatusLeavesPendingOnly ==
    [][\A i \in 1..Len(ledger) :
          /\ ledger'[i].status # ledger[i].status => ledger[i].status = "pending"
          /\ \A field \in {"user", "type", "category", "amount", "hash", "blockNumber"} :
                ledger'[i][field] = ledger[i][field]
      ]_vars

(***************************************************************************)
(* A debit that fails after the ledger write: C24                          *)
(***************************************************************************)

C25_EffectAppliedOnce ==
    [][\A i \in savedAt :
          (/\ i <= Len(ledger)
           /\ ledger[i].status = "confirmed"
           /\ ledger[i].category = "earning"
           /\ ledger[i].user \in DOMAIN accounts)
          => accounts' = accounts
      ]_vars

(***************************************************************************)
(* Conservation between the ledger file and the balances: C26              *)
(***************************************************************************)

\* The sum that the entries of one user and one category add up to, each
\* entry counted with the absolute value of its amount.
RECURSIVE ledgerSum(_, _, _)
ledgerSum(list, userId, category) ==
    IF list = <<>> THEN 0
    ELSE (IF Head(list).user = userId /\ Head(list).category = category
          THEN Abs(Head(list).amount) ELSE 0)
         + ledgerSum(Tail(list), userId, category)

\* C26: the balance of every user is the welcome grant plus the amounts of
\* the user's 'earning' entries minus the absolute amounts of the user's
\* 'spending' entries.
C26_BalanceMatchesLedger ==
    \A i \in 1..Len(users) :
        users[i].credits = WelcomeGrant
                           + ledgerSum(transactions, users[i]._id, "earning")
                           - ledgerSum(transactions, users[i]._id, "spending")

(***************************************************************************)
(* Unique addresses and names under concurrent registration: C27           *)
(***************************************************************************)

\* C27: no two user records carry the same email and no two carry the same
\* username, whatever the order in which the steps of concurrent
\* registrations run.
C27_EmailAndUsernameUnique ==
    \A i, j \in 1..Len(users) :
        i # j => /\ users[i].email # users[j].email
                 /\ users[i].username # users[j].username

(***************************************************************************)
(* The admin middleware: C28                                               *)
(***************************************************************************)

ownedByOther(collection, field, userId, id) ==
    /\ findIndexById(collection, id) # 0
    /\ collection[findIndexById(collection, id)][field] # userId

\* C29: PUT and DELETE /tasks/:id and GET and DELETE /photos/:id on an entity
\* of another user answer 404 and leave the files as they were, GET
\* /videos/:id on a video of another user answers 403 unless the caller is an
\* admin, and GET /tasks and GET /transactions return records of the caller
\* only.
C29_OwnerIsolation ==
    [][\A userId \in UserIds :
          /\ \A id \in OwnedIds :
                /\ (/\ ownedByOther(tasks, "user", userId, id)
                    /\ resp'.route \in {"PUT /tasks/:id", "DELETE /tasks/:id"}
                    /\ \/ PutTask(userId, id, {"in_progress"}, {})
                       \/ DeleteTask(userId, id))
                   => /\ resp'.status = 404
                      /\ tasks' = tasks /\ users' = users
                      /\ transactions' = transactions
                /\ (/\ ownedByOther(photos, "user", userId, id)
                    /\ resp'.route \in {"GET /photos/:id", "DELETE /photos/:id"}
                    /\ \/ GetPhoto(userId, id)
                       \/ DeletePhoto(userId, id))
                   => /\ resp'.status = 404
                      /\ photos' = photos
                /\ (/\ ownedByOther(videos, "userId", userId, id)
                    /\ resp'.route = "GET /videos/:id"
                    /\ GetVideo(userId, id))
                   => /\ resp'.status = IF isAdmin(users[findUser(userId)])
                                        THEN 200 ELSE 403
                      /\ videos' = videos
          /\ (resp'.route = "GET /tasks" /\ GetTasks(userId, {}, {}, {}, {}))
             => \A i \in 1..Len(resp'.data.tasks) : resp'.data.tasks[i].user = userId
          /\ (/\ resp'.route = GetRoute
              /\ GetTransactions(userId, {}, {}, {}, {}, {}, {}, {}))
             => \A i \in 1..Len(resp'.data.transactions) :
                   resp'.data.transactions[i].user = userId
      ]_vars

\* A caller was refused the video of another user.
C29_Witness ==
    /\ resp.route = "GET /videos/:id"
    /\ resp.status = 403
    /\ \E i \in 1..Len(videos) : \E j \in 1..Len(users) :
          videos[i].userId # users[j]._id /\ ~isAdmin(users[j])

(***************************************************************************)
(* updateUser and the two updates of a reward: C30                         *)
(***************************************************************************)

\* Updates of one, of a nested and of two fields.
UpdateSamples ==
    { [credits |-> 7], [stats |-> NewStats], [isActive |-> FALSE, lastLogin |-> 1] }

\* updateUser(id, data) changes, in the record with the id, the fields data
\* names and updatedAt and nothing else, changes no other record, and changes
\* nothing when no record has the id.
updateUserFrame ==
    \A id \in 1..(Len(users) + 1), data \in UpdateSamples :
        LET after == updateUser(id, data)
            i == findUser(id)
        IN IF i = 0
           THEN after = users
           ELSE /\ Len(after) = Len(users)
                /\ \A j \in 1..Len(users) : j # i => after[j] = users[j]
                /\ \A f \in DOMAIN data : after[i][f] = data[f]
                /\ \A f \in DOMAIN users[i] :
                      f \notin DOMAIN data \cup {"updatedAt"} => after[i][f] = users[i][f]

\* A request that completes a task, or uploads a photo, ends with the reward
\* on the balance and the counter of the stats raised by one.
bothUpdatesKept ==
    \A userId \in UserIds :
        LET u == findUser(userId) IN
        /\ \A id \in OwnedIds :
              (/\ findOwnTask(userId, id) # 0
               /\ tasks[findOwnTask(userId, id)].status # "completed"
               /\ PutTask(userId, id, {"completed"}, {}))
              => /\ users'[u].credits =
                        users[u].credits + tasks[findOwnTask(userId, id)].credits
                 /\ users'[u].stats.tasksCompleted = users[u].stats.tasksCompleted + 1
        /\ UploadPhoto(userId, {})
           => /\ users'[u].credits = users[u].credits + PhotoCredits
              /\ users'[u].stats.totalCleanups = users[u].stats.totalCleanups + 1

completionsOf(taskId) ==
    {j \in 1..Len(transactions) :
        /\ transactions[j].type = "task_completion"
        /\ transactions[j].metadata.taskId = taskId}

\* C6: over any sequence of updates of one task its reward is credited at
\* most once: the ledger never holds two task_completion entries of one task.
C6_RewardCreditedOnce ==
    \A i \in 1..Len(tasks) : Cardinality(completionsOf(tasks[i]._id)) <= 1

(***************************************************************************)
(* Pagination of GET /transactions: C10                                    *)
(***************************************************************************)


\* The page a request at this offset gets from the handler's slice.
pageAt(all, offset, limit) == slice(all, offset, endIndexOf(offset, limit))

\* The result set of the claim's example: 35 items, newest first.
Sample35 == [i \in 1..35 |-> [_id |-> i, createdAt |-> 35 - i]]

\* What C10 says of the answer r to a request of limit L and offset O over
\* the result set all.
PageCorrect(all, L, O, r) ==
    LET N == Len(all)
        room == IF N - O < L THEN N - O ELSE L
        size == IF room < 0 THEN 0 ELSE room
        page == r.data.transactions
    IN
    /\ \A i, j \in 1..N : i < j => all[i].createdAt >= all[j].createdAt
    /\ Len(page) = size
    /\ \A k \in 1..size : page[k] = all[O + k]
    /\ r.data.pagination.total = N
    /\ r.data.pagination.hasMore = (O + L < N)
    /\ \A k1, k2 \in 0..N :
          k1 # k2 => idsOf(pageAt(all, k1 * L, L)) \cap idsOf(pageAt(all, k2 * L, L)) = {}
    /\ UNION {idsOf(pageAt(all, k * L, L)) : k \in 0..N} = idsOf(all)
    /\ L = 20 =>
          /\ Len(pageAt(Sample35, 0, L)) = 20
          /\ Len(pageAt(Sample35, 20, L)) = 15
          /\ idsOf(pageAt(Sample35, 0, L)) \cap idsOf(pageAt(Sample35, 20, L)) = {}
          /\ ~(endIndexOf(20, L) < Len(Sample35))

\* C10: every successful GET /transactions with limit L and offset O over a
\* result set of N items returns items O..O+L-1 of the newest-first ordering,
\* max(0, min(L, N - O)) of them, with total = N and hasMore exactly when
\* O + L < N; the pages at offsets 0, L, 2L, ... are pairwise disjoint and
\* cover the result set.
C10_PageIsSliceOfResultSet ==
    [][(resp'.route = GetRoute /\ resp'.status = 200) =>
          LET L == resp'.data.pagination.limit
              O == resp'.data.pagination.offset
          IN \A userId \in UserIds :
                \A limit \in {l \in PageLimits : l = {L} \/ (l = {} /\ L = DefaultLimit)} :
                   \A offset \in {o \in PageOffsets : o = {O} \/ (o = {} /\ O = 0)} :
                      GetTransactions(userId, {}, {}, {}, limit, offset, {}, {})
                      => PageCorrect(resultSet(userId, {}, {}, {}, {}, {}), L, O, resp')
      ]_vars

\* The second and last page of one item was served from a result set of two.
C10_Witness ==
    /\ resp.route = GetRoute
    /\ resp.status = 200
    /\ resp.data.pagination.total = 2
    /\ resp.data.pagination.limit = 1
    /\ resp.data.pagination.offset = 1
    /\ Len(resp.data.transactions) = 1
    /\ ~resp.data.pagination.hasMore
    /\ resp.data.transactions[1].createdAt < now

====
